---- MODULE Spec2Model ----
(***************************************************************************)
(* The ERD editor (App.tsx, components/Canvas.tsx, components/TableNode)   *)
(* as a state machine: the entity graph (tables, relationships), the view  *)
(* transform (zoom, offset) and the pointer-driven interaction state of    *)
(* the Canvas component.  One action per event handler.                    *)
(*                                                                         *)
(* Encoding of JavaScript values:                                          *)
(*   ids are positive integers; null / undefined is 0 (Null);              *)
(*   a color is an integer: 0 is "no color" (undefined), 1..12 are the     *)
(*   entries of CONNECTION_COLORS in order, larger numbers are colors      *)
(*   outside the palette (only an imported file can carry them);           *)
(*   zoom is kept in thousandths (1000 is zoom 1);                         *)
(*   world coordinates (table positions, the preview point) are exact      *)
(*   fractions [n, d] in lowest terms; screen coordinates are integers.    *)
(***************************************************************************)
EXTENDS Integers, Sequences, FiniteSets, TLC

VARIABLES
    tables,            \* App: Table[]            (sequence of table records)
    relationships,     \* App: Relationship[]     (sequence of relationship records)
    selectedTableId,   \* App: string | null
    prompt,            \* App: string (the AI prompt text area)
    isGenerating,      \* App: boolean (an AI generation call is in flight)
    zoom,              \* App: number, in thousandths
    offset,            \* App: Point
    isDraggingCanvas,  \* Canvas: boolean
    dragStart,         \* Canvas: Point
    draggingTableId,   \* Canvas: string | null
    connectionStart,   \* Canvas: ConnectionState | null
    highlightedColor,  \* Canvas: string | null
    contextMenu,       \* Canvas: ContextMenuState | null
    mousePos,          \* Canvas: Point (preview line end, world coordinates)
    pointer,           \* the pointer's client position (clientX, clientY of the events)
    nextId,            \* the next fresh id (stands for crypto.randomUUID())
    moves,             \* number of pointer-move events so far (bounded)
    gesture,           \* history: the pointer gesture in progress
    track,             \* history: where the current pan and table drag started
    shown,             \* history: the DDL the export dialog showed when last opened
    saved,             \* the file written by the last download, and the graph it was taken from
    upload,            \* TableNode: the image FileReader in flight and what its callback closes over
    ev,                \* history: the last event handled
    prev               \* history: the graph and the view before it

vars ==
    << tables, relationships, selectedTableId, prompt, isGenerating, zoom, offset,
       isDraggingCanvas, dragStart, draggingTableId, connectionStart, highlightedColor,
       contextMenu, mousePos, pointer, nextId, moves, gesture, track, shown, saved,
       upload, ev, prev >>

(***************************************************************************)
(* Bounds of the model.                                                    *)
(***************************************************************************)
\* relationships created by connect gestures in one behaviour
MaxNewRels == 2
\* pointer-move events in one behaviour
MaxMoves == 1
\* relationships of the graph a color behaviour starts from
MaxPreRels == 2
\* pointer-move events in one behaviour of the view specification
MaxViewMoves == 2

\* tables added with the "Add Table" button in one behaviour
MaxNewTables == 1

(***************************************************************************)
(* Program constants.                                                      *)
(***************************************************************************)
Null == 0

\* CONNECTION_COLORS.length
PaletteSize == 12

CONNECTION_COLORS == 1..PaletteSize

\* '#3b82f6' (blue-500), the 7th entry of CONNECTION_COLORS
DefaultBlue == 7

Point(px, py) == [x |-> px, y |-> py]

\* JavaScript numbers that may be fractional: n / d with d > 0, in lowest terms
RECURSIVE GCD(_, _)
GCD(a, b) == IF b = 0 THEN a ELSE GCD(b, a % b)

Abs(a) == IF a < 0 THEN -a ELSE a

Rat(n, d) == LET g == GCD(Abs(n), d) IN [n |-> n \div g, d |-> d \div g]

RatAdd(a, b) == Rat(a.n * b.d + b.n * a.d, a.d * b.d)

NullConnection == [tableId |-> Null, fieldId |-> Null]

NullMenu ==
    [open |-> FALSE, x |-> 0, y |-> 0, color |-> Null, tableId |-> Null,
     fieldId |-> Null, relationshipId |-> Null]

\* description is the length of the text (0: none or empty), imageUrl null or an image
Table(id, px, py, fields) ==
    [id |-> id, x |-> Rat(px, 1), y |-> Rat(py, 1), fields |-> fields,
     description |-> 0, imageUrl |-> Null]

\* no image is being read
NoUpload == [pending |-> FALSE, tableId |-> Null, tables |-> << >>]

Relationship(id, st, sf, tt, tf, card, color) ==
    [id |-> id, sourceTableId |-> st, sourceFieldId |-> sf, targetTableId |-> tt,
     targetFieldId |-> tf, cardinality |-> card, color |-> color]

\* useState initial values of App (tables '1' Users: f1 f2 f3, '2' Logs: p1..p4)
InitialTables ==
    << Table(1, 100, 100, <<11, 12, 13>>), Table(2, 500, 100, <<21, 22, 23, 24>>) >>

InitialRelationships ==
    << Relationship(1, 2, 22, 1, 11, "N:1", DefaultBlue) >>

(***************************************************************************)
(* Helpers on sequences (Array.prototype.find / some / filter / map).      *)
(***************************************************************************)
Range(s) == { s[i] : i \in 1..Len(s) }

TableIds(ts) == { ts[i].id : i \in 1..Len(ts) }

HasField(ts, t, f) == \E i \in 1..Len(ts) : ts[i].id = t /\ f \in Range(ts[i].fields)

\* Array.prototype.find over the indices S that satisfy the test: the first, 0 when none
FirstIndex(S) == IF S = { } THEN 0 ELSE CHOOSE i \in S : \A j \in S : i <= j

(***************************************************************************)
(* Canvas.fieldColors: field id -> color of the last relationship that     *)
(* names the field id as source or target field (blue when it has no       *)
(* color); 0 when no relationship names it.  Keyed by the field id alone.  *)
(***************************************************************************)
EffectiveColor(r) == IF r.color # Null THEN r.color ELSE DefaultBlue

NamesField(r, f) ==
    (r.sourceFieldId # Null /\ r.sourceFieldId = f) \/ (r.targetFieldId # Null /\ r.targetFieldId = f)

fieldColors(rels, f) ==
    IF \E i \in 1..Len(rels) : NamesField(rels[i], f)
    THEN EffectiveColor(rels[CHOOSE i \in 1..Len(rels) :
                                /\ NamesField(rels[i], f)
                                /\ \A j \in (i+1)..Len(rels) : ~NamesField(rels[j], f)])
    ELSE Null

(***************************************************************************)
(* Geometry: utils/geometry and the Geometry Helpers of Canvas, on exact   *)
(* fractions.                                                              *)
(***************************************************************************)
RatNeg(a) == [n |-> -a.n, d |-> a.d]

RatSub(a, b) == RatAdd(a, RatNeg(b))

RatMul(a, b) == Rat(a.n * b.n, a.d * b.d)

\* a / b for b # 0
RatDiv(a, b) == IF b.n > 0 THEN Rat(a.n * b.d, a.d * b.n) ELSE Rat(-(a.n * b.d), a.d * (-b.n))

RatAbs(a) == [n |-> Abs(a.n), d |-> a.d]

RatLess(a, b) == a.n * b.d < b.n * a.d

RatLeq(a, b) == a.n * b.d <= b.n * a.d

TABLE_SIZE == [width |-> 280, height |-> 200]

\* { x: x + width / 2, y: y + height / 2 }
getCenter(x, y, width, height) == Point(RatAdd(x, Rat(width, 2)), RatAdd(y, Rat(height, 2)))

\* where the line from center1 to center2 leaves the rectangle around center1
getIntersection(center1, size1, center2) ==
    LET dx == RatSub(center2.x, center1.x)
        dy == RatSub(center2.y, center1.y)
        aspect == Rat(size1.width, size1.height)
        absDx == RatAbs(dx)
        absDy == RatAbs(dy)
        scale == IF RatLess(RatMul(aspect, absDy), absDx)
                 THEN RatDiv(Rat(size1.width, 2), absDx)
                 ELSE RatDiv(Rat(size1.height, 2), absDy)
    IN  IF dx.n = 0 /\ dy.n = 0 THEN center1
        ELSE Point(RatAdd(center1.x, RatMul(dx, scale)), RatAdd(center1.y, RatMul(dy, scale)))

\* Math.ceil(description.length / 42) * 16 + 10, 0 without a description
getTableDescHeight(table) ==
    IF table.description # 0 THEN ((table.description + 41) \div 42) * 16 + 10 ELSE 0

\* table.imageUrl ? 128 : 0
ImageHeight(table) == IF table.imageUrl # Null THEN 128 ELSE 0

\* variant: the image is left out of the height
calculateTableHeightWithoutImage(table) ==
    (40 + 8 + 35) + Len(table.fields) * 33 + getTableDescHeight(table)

calculateTableHeight(table) ==
    (40 + 8 + 35) + Len(table.fields) * 33 + getTableDescHeight(table) + ImageHeight(table)

TableCenter(table) == getCenter(table.x, table.y, TABLE_SIZE.width, calculateTableHeight(table))

\* table.fields.findIndex(f => f.id === fieldId), counted from 0; -1 if there is none
FieldIndex(table, fieldId) ==
    LET S == { k \in 1..Len(table.fields) : table.fields[k] = fieldId } IN
    IF S = { } THEN -1 ELSE FirstIndex(S) - 1

\* the anchor of a field: the middle of its row on the right edge; the center of the
\* table without a fieldId or when the field is not found
getFieldPosition(table, fieldId) ==
    IF fieldId = Null \/ FieldIndex(table, fieldId) = -1
    THEN TableCenter(table)
    ELSE Point(RatAdd(table.x, Rat(TABLE_SIZE.width, 1)),
               RatAdd(table.y,
                      RatAdd(Rat(40 + getTableDescHeight(table) + ImageHeight(table) + 8
                                   + FieldIndex(table, fieldId) * 33, 1),
                             Rat(33, 2))))

\* tables.find(t => t.id === id): its index, 0 if there is none
FindTable(ts, id) == FirstIndex({ i \in 1..Len(ts) : ts[i].id = id })

NoPath == [drawn |-> FALSE]

\* start + dir * 50
ControlPoint(p, dirX) == Point(RatAdd(p.x, Rat(dirX * 50, 1)), p.y)

\* the path of a relationship with a field at one end at least
FieldConnectionPath(source, target, r) ==
    LET p1 == IF r.sourceFieldId # Null THEN getFieldPosition(source, r.sourceFieldId)
              ELSE TableCenter(source)
        p2 == IF r.targetFieldId # Null THEN getFieldPosition(target, r.targetFieldId)
              ELSE TableCenter(target)
        toRight == RatLess(source.x, target.x)
        start == IF ~toRight /\ r.sourceFieldId # Null THEN [p1 EXCEPT !.x = source.x] ELSE p1
        end == IF toRight /\ r.targetFieldId # Null THEN [p2 EXCEPT !.x = target.x] ELSE p2
        dir1 == IF ~toRight /\ r.sourceFieldId # Null THEN -1 ELSE 1
        dir2 == IF toRight /\ r.targetFieldId # Null THEN -1 ELSE 1
    IN  [drawn |-> TRUE, curve |-> TRUE, start |-> start, end |-> end,
         cp1 |-> ControlPoint(start, dir1), cp2 |-> ControlPoint(end, dir2)]

\* the straight line between two tables joined at table level
TableConnectionPath(source, target) ==
    LET sourceCenter == TableCenter(source)
        targetCenter == TableCenter(target)
        start == getIntersection(sourceCenter,
                                 [width |-> TABLE_SIZE.width, height |-> calculateTableHeight(source)],
                                 targetCenter)
        end == getIntersection(targetCenter,
                               [width |-> TABLE_SIZE.width, height |-> calculateTableHeight(target)],
                               sourceCenter)
    IN  [drawn |-> TRUE, curve |-> FALSE, start |-> start, end |-> end, cp1 |-> start, cp2 |-> end]

\* null when a table is not found, else the path drawn for r
renderConnectionLine(ts, r) ==
    LET s == FindTable(ts, r.sourceTableId)
        t == FindTable(ts, r.targetTableId)
    IN  IF s = 0 \/ t = 0 THEN NoPath
        ELSE IF r.sourceFieldId # Null \/ r.targetFieldId # Null
        THEN FieldConnectionPath(ts[s], ts[t], r)
        ELSE TableConnectionPath(ts[s], ts[t])

(***************************************************************************)
(* handleConnect: the pure parts.                                          *)
(***************************************************************************)
TouchesField(r, t, f) ==
    \/ (r.sourceTableId = t /\ r.sourceFieldId = f)
    \/ (r.targetTableId = t /\ r.targetFieldId = f)

TouchesTable(r, t) == r.sourceTableId = t \/ r.targetTableId = t

\* the indices of the relationships touching field (t, f) / table t
AtField(rels, t, f) == { i \in 1..Len(rels) : TouchesField(rels[i], t, f) }

AtTable(rels, t) == { i \in 1..Len(rels) : TouchesTable(rels[i], t) }

\* const r = relationships.find(...); r?.color
FoundColor(rels, S) ==
    LET i == FirstIndex(S) IN IF i = 0 THEN Null ELSE rels[i].color

\* variant: the same-handle test is missing
IsSameHandleNever(cs, t, f) == FALSE

\* connectionStart.tableId === tableId && connectionStart.fieldId === fieldId
IsSameHandle(cs, t, f) == cs.tableId = t /\ cs.fieldId = f

\* variant: only the same direction is looked for
ConnectionExistsSameOrderOnly(rels, cs, t, f) ==
    \E i \in 1..Len(rels) :
        /\ rels[i].sourceTableId = cs.tableId /\ rels[i].targetTableId = t
        /\ rels[i].sourceFieldId = cs.fieldId /\ rels[i].targetFieldId = f

\* const exists = relationships.some(...): same endpoints, either direction
ConnectionExists(rels, cs, t, f) ==
    \E i \in 1..Len(rels) :
        \/ /\ rels[i].sourceTableId = cs.tableId /\ rels[i].targetTableId = t
           /\ rels[i].sourceFieldId = cs.fieldId /\ rels[i].targetFieldId = f
        \/ /\ rels[i].sourceTableId = t /\ rels[i].targetTableId = cs.tableId
           /\ rels[i].sourceFieldId = f /\ rels[i].targetFieldId = cs.fieldId

\* variant: the target field is asked before the source field
InheritedColorTargetFieldFirst(rels, cs, t, f) ==
    LET c1 == IF f # Null
              THEN FoundColor(rels, AtField(rels, t, f))
              ELSE Null
        c2 == IF c1 = Null /\ cs.fieldId # Null
              THEN FoundColor(rels, AtField(rels, cs.tableId, cs.fieldId))
              ELSE c1
        c3 == IF c2 = Null
              THEN FoundColor(rels, AtTable(rels, cs.tableId))
              ELSE c2
        c4 == IF c3 = Null
              THEN FoundColor(rels, AtTable(rels, t))
              ELSE c3
    IN  c4

\* variant: the target table is asked before the source table
InheritedColorTargetTableFirst(rels, cs, t, f) ==
    LET c1 == IF cs.fieldId # Null
              THEN FoundColor(rels, AtField(rels, cs.tableId, cs.fieldId))
              ELSE Null
        c2 == IF c1 = Null /\ f # Null
              THEN FoundColor(rels, AtField(rels, t, f))
              ELSE c1
        c3 == IF c2 = Null
              THEN FoundColor(rels, AtTable(rels, t))
              ELSE c2
        c4 == IF c3 = Null
              THEN FoundColor(rels, AtTable(rels, cs.tableId))
              ELSE c3
    IN  c4

\* rules 1 to 4 of the color logic; Null when the color is still undefined
InheritedColor(rels, cs, t, f) ==
    LET c1 == IF cs.fieldId # Null
              THEN FoundColor(rels, AtField(rels, cs.tableId, cs.fieldId))
              ELSE Null
        c2 == IF c1 = Null /\ f # Null
              THEN FoundColor(rels, AtField(rels, t, f))
              ELSE c1
        c3 == IF c2 = Null
              THEN FoundColor(rels, AtTable(rels, cs.tableId))
              ELSE c2
        c4 == IF c3 = Null
              THEN FoundColor(rels, AtTable(rels, t))
              ELSE c3
    IN  c4

\* variant: rule 5 is missing, the color stays undefined
NewColorsUndefined(rels, cs, t, f) == { InheritedColor(rels, cs, t, f) }

\* rule 5: CONNECTION_COLORS[Math.floor(Math.random() * CONNECTION_COLORS.length)]
NewColors(rels, cs, t, f) ==
    IF InheritedColor(rels, cs, t, f) # Null
    THEN { InheritedColor(rels, cs, t, f) }
    ELSE CONNECTION_COLORS

\* id of the n-th relationship created in a behaviour (crypto.randomUUID())
FreshId(n) == 100 + n

\* variant: the clicked handle becomes the source
NewRelReversed(id, cs, t, f, color) == Relationship(id, t, f, cs.tableId, cs.fieldId, "1:N", color)

NewRel(id, cs, t, f, color) == Relationship(id, cs.tableId, cs.fieldId, t, f, "1:N", color)

(***************************************************************************)
(* handleTableDelete / handleTableUpdate: the pure parts.                  *)
(***************************************************************************)
\* tables.filter(t => t.id !== id)
TablesAfterDelete(ts, id) == SelectSeq(ts, LAMBDA t : t.id # id)

\* variant: only the source side is filtered
RelsAfterTableDeleteSourceOnly(rels, id) ==
    SelectSeq(rels, LAMBDA r : r.sourceTableId # id)

\* relationships.filter(r => r.sourceTableId !== id && r.targetTableId !== id)
RelsAfterTableDelete(rels, id) ==
    SelectSeq(rels, LAMBDA r : r.sourceTableId # id /\ r.targetTableId # id)

\* tables.map(t => t.id === id ? { ...t, fields } : t), fields without fieldId
TablesAfterRemoveField(ts, id, f) ==
    [ i \in 1..Len(ts) |->
        IF ts[i].id = id
        THEN [ ts[i] EXCEPT !.fields = SelectSeq(ts[i].fields, LAMBDA g : g # f) ]
        ELSE ts[i] ]

\* onRelationshipsUpdate is not called by handleRemoveField / handleTableUpdate
RelsAfterRemoveField(rels, id, f) == rels

(***************************************************************************)
(* App.generateSQL: one statement per table, in table order: the table's   *)
(* name, its column names, and its FOREIGN KEY clauses.  Names are looked  *)
(* up by id; the column types and flags of a line are left out.            *)
(***************************************************************************)
\* t.name of the tables the model uses
TableName(id) ==
    CASE id = 1 -> "Users" [] id = 2 -> "Logs" [] id = 4 -> "Posts" [] OTHER -> "New_Table"

\* f.name of the fields the model uses
FieldName(id) ==
    CASE id = 11 -> "id" [] id = 12 -> "username" [] id = 13 -> "email"
      [] id = 21 -> "id" [] id = 22 -> "user_id" [] id = 23 -> "action"
      [] id = 24 -> "timestamp" [] id = 41 -> "user_id" [] id = 42 -> "title"
      [] OTHER -> "new_field"

\* FOREIGN KEY (${sourceField.name}) REFERENCES ${targetTable.name}(${targetField.name})
ForeignKeyClause(r) ==
    [field |-> FieldName(r.sourceFieldId), refTable |-> TableName(r.targetTableId),
     refField |-> FieldName(r.targetFieldId)]

\* the filter of generateSQL: this table is the source, all three other ids are set
IsForeignKeyOf(r, t) ==
    /\ r.sourceTableId = t.id
    /\ r.sourceFieldId # Null /\ r.targetTableId # Null /\ r.targetFieldId # Null

\* sourceField && targetTable && targetField, each found by id
ForeignKeyResolves(ts, r, t) ==
    /\ r.sourceFieldId \in Range(t.fields)
    /\ HasField(ts, r.targetTableId, r.targetFieldId)

\* variant: the clause is written into the statement of the target table
ForeignKeysOfTarget(ts, rels, t) ==
    LET kept == SelectSeq(rels, LAMBDA r : r.targetTableId = t.id /\ r.sourceFieldId # Null
                                           /\ r.targetFieldId # Null)
    IN  [ i \in 1..Len(kept) |->
            [field |-> FieldName(kept[i].targetFieldId),
             refTable |-> TableName(kept[i].sourceTableId),
             refField |-> FieldName(kept[i].sourceFieldId)] ]

\* variant: the clause is written without looking the fields up
ForeignKeysUnresolved(ts, rels, t) ==
    LET kept == SelectSeq(rels, LAMBDA r : IsForeignKeyOf(r, t))
    IN  [ i \in 1..Len(kept) |-> ForeignKeyClause(kept[i]) ]

ForeignKeys(ts, rels, t) ==
    LET kept == SelectSeq(rels, LAMBDA r : IsForeignKeyOf(r, t) /\ ForeignKeyResolves(ts, r, t))
    IN  [ i \in 1..Len(kept) |-> ForeignKeyClause(kept[i]) ]

generateSQL(ts, rels) ==
    [ i \in 1..Len(ts) |->
        [table |-> TableName(ts[i].id),
         columns |-> [ j \in 1..Len(ts[i].fields) |-> FieldName(ts[i].fields[j]) ],
         foreignKeys |-> ForeignKeys(ts, rels, ts[i])] ]

(***************************************************************************)
(* Values that JSON.parse delivers, to the import and to the AI call.  A   *)
(* parsed value is null or an object; its tables / relationships property  *)
(* is an array (a sequence), absent (Undefined) or a truthy value that is  *)
(* no array (NotArray: a string, an object).                               *)
(***************************************************************************)
Undefined == << [undefined |-> TRUE] >>

NotArray == << [notArray |-> TRUE] >>

JsonNull == [kind |-> "null", tables |-> Undefined, relationships |-> Undefined]

JsonObject(ts, rels) == [kind |-> "object", tables |-> ts, relationships |-> rels]

\* Array.isArray(v)
IsArray(v) == v # Undefined /\ v # NotArray

\* v used as a condition
Truthy(v) == v # Undefined

\* the app renders only while tables and relationships are arrays (tables.map,
\* relationships.forEach in render): otherwise React unmounts the tree
Rendered == IsArray(tables) /\ IsArray(relationships)

(***************************************************************************)
(* JSON.stringify({ tables, relationships }, null, 2) and JSON.parse.  The *)
(* text is modelled by its structure: an object is a function from the     *)
(* property names written to their values.  A property whose value is      *)
(* undefined is not written; reading a property that is not there gives    *)
(* undefined.                                                              *)
(***************************************************************************)
\* the properties of Relationship that may be undefined
OptionalKeys == { "sourceFieldId", "targetFieldId", "color", "imageUrl" }

\* variant: the color is not written
StringifyWithoutColor(rec) ==
    [ k \in { k \in DOMAIN rec : k # "color" /\ (k \notin OptionalKeys \/ rec[k] # Null) }
        |-> rec[k] ]

Stringify(rec) ==
    [ k \in { k \in DOMAIN rec : k \notin OptionalKeys \/ rec[k] # Null } |-> rec[k] ]

Serialize(ts, rels) ==
    [tables |-> [ i \in 1..Len(ts) |-> Stringify(ts[i]) ],
     relationships |-> [ i \in 1..Len(rels) |-> Stringify(rels[i]) ]]

TableKeys == { "id", "x", "y", "fields", "description", "imageUrl" }

RelationshipKeys ==
    { "id", "sourceTableId", "sourceFieldId", "targetTableId", "targetFieldId",
      "cardinality", "color" }

\* the object JSON.parse builds, as the program reads it
ParseObject(obj, keys) == [ k \in keys |-> IF k \in DOMAIN obj THEN obj[k] ELSE Null ]

Parse(text) ==
    JsonObject([ i \in 1..Len(text.tables) |-> ParseObject(text.tables[i], TableKeys) ],
               [ i \in 1..Len(text.relationships) |->
                   ParseObject(text.relationships[i], RelationshipKeys) ])

NoFile ==
    [present |-> FALSE, text |-> [tables |-> << >>, relationships |-> << >>],
     graph |-> [tables |-> << >>, relationships |-> << >>]]

(***************************************************************************)
(* History variables, written by every action.                            *)
(***************************************************************************)
NoGesture ==
    [kind |-> "none", t |-> Null, f |-> Null, tables |-> << >>, offset |-> Point(0, 0),
     selectedTableId |-> Null]

\* pan: offset and pointer when the pan started; drag: the table, all tables and
\* the zoom when the drag started, the pointer movement summed since, and whether
\* no zoom event happened since
NoTrack ==
    [pan |-> [offset |-> Point(0, 0), pointer |-> Point(0, 0)],
     drag |-> [t |-> Null, tables |-> << >>, zoom |-> 1000, sum |-> Point(0, 0),
               steady |-> TRUE]]

Tracked(op, t, f, outcome) ==
    [pan |-> IF op = "canvasMouseDown" /\ outcome = "canvas" /\ t = 0
             THEN [offset |-> offset, pointer |-> pointer]
             ELSE track.pan,
     drag |-> IF op = "tableMouseDown" /\ connectionStart = NullConnection
              THEN [t |-> t, tables |-> tables, zoom |-> zoom, sum |-> Point(0, 0),
                    steady |-> TRUE]
              ELSE IF op = "mouseMove"
              THEN [track.drag EXCEPT !.sum = Point(@.x + t, @.y + f)]
              ELSE IF op \in { "wheel", "zoomIn", "zoomOut" }
              THEN [track.drag EXCEPT !.steady = FALSE]
              ELSE track.drag]

Event(op, t, f, outcome) == [op |-> op, t |-> t, f |-> f, outcome |-> outcome]

Snapshot ==
    [tables |-> tables, relationships |-> relationships, connectionStart |-> connectionStart,
     zoom |-> zoom, offset |-> offset]

Log(op, t, f, outcome) ==
    /\ ev' = Event(op, t, f, outcome)
    /\ prev' = Snapshot
    /\ track' = Tracked(op, t, f, outcome)
    /\ shown' = IF op = "exportSQL" THEN generateSQL(tables, relationships) ELSE shown
    /\ saved' = IF op = "download"
                THEN [present |-> TRUE, text |-> Serialize(tables, relationships),
                      graph |-> [tables |-> tables, relationships |-> relationships]]
                ELSE saved

\* the canvas element's getBoundingClientRect(): <main> starts right of the sidebar
CanvasRect == Point(320, 0)

\* a / zoom for zoom in thousandths
DivZoom(a, z) == Rat(a * 1000, z)

\* variant: the pan remembers the pointer alone
DragStartAtPointer(client, off) == client

\* { x: e.clientX - offset.x, y: e.clientY - offset.y }
DragStartAt(client, off) == Point(client.x - off.x, client.y - off.y)

(***************************************************************************)
(* Canvas.handleMouseDown: pointer-down that reaches the canvas root.      *)
(* inMenu: the target lies inside the open context menu.                   *)
(***************************************************************************)
handleMouseDown(button, inMenu) ==
    /\ inMenu => contextMenu.open
    /\ IF inMenu
       THEN UNCHANGED << contextMenu, isDraggingCanvas, dragStart, selectedTableId,
                         connectionStart >>
       ELSE /\ contextMenu' = NullMenu
            /\ IF button = 0
               THEN /\ isDraggingCanvas' = TRUE
                    /\ dragStart' = DragStartAt(pointer, offset)
                    /\ selectedTableId' = Null
                    /\ connectionStart' = NullConnection
               ELSE UNCHANGED << isDraggingCanvas, dragStart, selectedTableId,
                                 connectionStart >>
    /\ UNCHANGED << tables, relationships, zoom, offset, draggingTableId,
                    highlightedColor, mousePos, pointer, nextId, moves,
                    prompt, isGenerating >>

CanvasMouseDown(button, inMenu) ==
    /\ handleMouseDown(button, inMenu)
    /\ gesture' = [NoGesture EXCEPT !.kind = IF inMenu THEN "menu" ELSE "canvas"]
    /\ UNCHANGED upload
    /\ Log("canvasMouseDown", button, Null, IF inMenu THEN "menu" ELSE "canvas")

(***************************************************************************)
(* Canvas.handleTableMouseDown: pointer-down anywhere inside a TableNode   *)
(* (its root div's onMouseDown); e.button is not looked at.                *)
(***************************************************************************)
handleTableMouseDown(tableId) ==
    /\ contextMenu' = NullMenu
    /\ IF connectionStart # NullConnection
       THEN UNCHANGED << selectedTableId, draggingTableId >>
       ELSE /\ selectedTableId' = tableId
            /\ draggingTableId' = tableId
    /\ UNCHANGED << tables, relationships, zoom, offset, isDraggingCanvas, dragStart,
                    connectionStart, highlightedColor, mousePos, pointer, nextId, moves,
                    prompt, isGenerating >>

\* pointer-down on a table's header or body
TableBodyMouseDown(t) ==
    /\ t \in TableIds(tables)
    /\ handleTableMouseDown(t)
    /\ gesture' = [NoGesture EXCEPT !.kind = "body", !.t = t]
    /\ UNCHANGED upload
    /\ Log("tableMouseDown", t, Null, "body")

\* pointer-down on the connection handle of field f of table t: the button has no
\* onMouseDown of its own, the event bubbles to the TableNode root
HandleMouseDown(t, f) ==
    /\ HasField(tables, t, f)
    /\ handleTableMouseDown(t)
    /\ gesture' = [kind |-> "handle", t |-> t, f |-> f, tables |-> tables, offset |-> offset,
                   selectedTableId |-> selectedTableId]
    /\ UNCHANGED upload
    /\ Log("tableMouseDown", t, f, "handle")

(***************************************************************************)
(* Canvas.handleMouseMove, for a pointer movement d.                       *)
(***************************************************************************)
\* variant: the movement is applied in screen pixels
MovedTablesUnscaled(ts, id, d, z) ==
    [ i \in 1..Len(ts) |->
        IF ts[i].id = id
        THEN [ ts[i] EXCEPT !.x = RatAdd(@, Rat(d.x, 1)), !.y = RatAdd(@, Rat(d.y, 1)) ]
        ELSE ts[i] ]

MovedTables(ts, id, d, z) ==
    [ i \in 1..Len(ts) |->
        IF ts[i].id = id
        THEN [ ts[i] EXCEPT !.x = RatAdd(@, DivZoom(d.x, z)),
                            !.y = RatAdd(@, DivZoom(d.y, z)) ]
        ELSE ts[i] ]

handleMouseMove(d) ==
    LET client == Point(pointer.x + d.x, pointer.y + d.y) IN
    /\ pointer' = client
    /\ offset' = IF isDraggingCanvas
                 THEN Point(client.x - dragStart.x, client.y - dragStart.y)
                 ELSE offset
    /\ tables' = IF draggingTableId # Null
                 THEN MovedTables(tables, draggingTableId, d, zoom)
                 ELSE tables
    /\ mousePos' = IF connectionStart # NullConnection
                   THEN Point(DivZoom(client.x - CanvasRect.x - offset.x, zoom),
                              DivZoom(client.y - CanvasRect.y - offset.y, zoom))
                   ELSE mousePos
    /\ UNCHANGED << relationships, selectedTableId, zoom, isDraggingCanvas, dragStart,
                    draggingTableId, connectionStart, highlightedColor, contextMenu, nextId,
                    prompt, isGenerating >>

\* a pointer-move over the canvas, at most `limit` of them in a behaviour
PointerMove(d, limit) ==
    /\ moves < limit
    /\ moves' = moves + 1
    /\ handleMouseMove(d)
    /\ UNCHANGED gesture
    /\ UNCHANGED upload
    /\ Log("mouseMove", d.x, d.y, "moved")

MouseMove(d) == PointerMove(d, MaxMoves)

(***************************************************************************)
(* Canvas.handleMouseUp: bound to onMouseUp and onMouseLeave of the root.  *)
(***************************************************************************)
\* variant: only the pan is stopped
handleMouseUpPanOnly ==
    /\ isDraggingCanvas' = FALSE
    /\ UNCHANGED << tables, relationships, selectedTableId, zoom, offset, dragStart,
                    draggingTableId, connectionStart, highlightedColor, contextMenu,
                    mousePos, pointer, nextId, moves, prompt, isGenerating >>

handleMouseUp ==
    /\ isDraggingCanvas' = FALSE
    /\ draggingTableId' = Null
    /\ UNCHANGED << tables, relationships, selectedTableId, zoom, offset, dragStart,
                    connectionStart, highlightedColor, contextMenu, mousePos, pointer,
                    nextId, moves, prompt, isGenerating >>

MouseUp ==
    /\ handleMouseUp
    /\ gesture' = IF gesture.kind = "handle" THEN [gesture EXCEPT !.kind = "released"]
                  ELSE NoGesture
    /\ UNCHANGED upload
    /\ Log("mouseUp", Null, Null, "up")

MouseLeave ==
    /\ handleMouseUp
    /\ gesture' = NoGesture
    /\ UNCHANGED upload
    /\ Log("mouseUp", Null, Null, "leave")

(***************************************************************************)
(* Canvas.handleWheel and the zoom buttons.                                *)
(***************************************************************************)
Min(a, b) == IF a < b THEN a ELSE b

Max(a, b) == IF a > b THEN a ELSE b

\* variant: only the lower clamp
WheelZoomLowerClampOnly(z, deltaY) == Max(200, z - deltaY)

\* Math.min(Math.max(0.2, z + delta), 3) with delta = -deltaY * 0.001
WheelZoom(z, deltaY) == Min(Max(200, z - deltaY), 3000)

\* Math.min(2, z + 0.1)
ZoomInButton(z) == Min(2000, z + 100)

\* Math.max(0.2, z - 0.1)
ZoomOutButton(z) == Max(200, z - 100)

handleWheel(deltaY) ==
    /\ zoom' = WheelZoom(zoom, deltaY)
    /\ UNCHANGED << tables, relationships, selectedTableId, offset, isDraggingCanvas,
                    dragStart, draggingTableId, connectionStart, highlightedColor,
                    contextMenu, mousePos, pointer, nextId, moves, prompt, isGenerating >>

Wheel(deltaY) ==
    /\ handleWheel(deltaY)
    /\ UNCHANGED gesture
    /\ UNCHANGED upload
    /\ Log("wheel", deltaY, Null, "zoomed")

ZoomInClick ==
    /\ zoom' = ZoomInButton(zoom)
    /\ UNCHANGED << tables, relationships, selectedTableId, offset, isDraggingCanvas,
                    dragStart, draggingTableId, connectionStart, highlightedColor,
                    contextMenu, mousePos, pointer, nextId, moves, gesture,
                    prompt, isGenerating >>
    /\ UNCHANGED upload
    /\ Log("zoomIn", Null, Null, "zoomed")

ZoomOutClick ==
    /\ zoom' = ZoomOutButton(zoom)
    /\ UNCHANGED << tables, relationships, selectedTableId, offset, isDraggingCanvas,
                    dragStart, draggingTableId, connectionStart, highlightedColor,
                    contextMenu, mousePos, pointer, nextId, moves, gesture,
                    prompt, isGenerating >>
    /\ UNCHANGED upload
    /\ Log("zoomOut", Null, Null, "zoomed")

(***************************************************************************)
(* Canvas.handleConnect(tableId, fieldId): click on a connection handle.   *)
(***************************************************************************)
ConnectOutcome(rels, cs, t, f) ==
    IF cs = NullConnection THEN "start"
    ELSE IF IsSameHandle(cs, t, f) THEN "cancel"
    ELSE IF ConnectionExists(rels, cs, t, f) THEN "duplicate"
    ELSE "created"

\* variant: a second click on the source handle keeps the connection pending
ConnectionAfterKeptOnCancel(cs, outcome, t, f) ==
    IF outcome = "start" THEN [tableId |-> t, fieldId |-> f]
    ELSE IF outcome = "cancel" THEN cs
    ELSE NullConnection

\* variant: an ignored duplicate keeps the connection pending
ConnectionAfterKeptOnDuplicate(cs, outcome, t, f) ==
    IF outcome = "start" THEN [tableId |-> t, fieldId |-> f]
    ELSE IF outcome = "duplicate" THEN cs
    ELSE NullConnection

\* setConnectionStart({ tableId, fieldId }) on the first click, setConnectionStart(null)
\* on every path of the second
ConnectionAfter(cs, outcome, t, f) ==
    IF outcome = "start" THEN [tableId |-> t, fieldId |-> f] ELSE NullConnection

handleConnect(t, f) ==
    LET outcome == ConnectOutcome(relationships, connectionStart, t, f) IN
    /\ contextMenu' = NullMenu
    /\ connectionStart' = ConnectionAfter(connectionStart, outcome, t, f)
    /\ IF outcome = "created"
       THEN /\ nextId < MaxNewRels
            /\ nextId' = nextId + 1
            /\ \E color \in NewColors(relationships, connectionStart, t, f) :
                  relationships' =
                      Append(relationships, NewRel(FreshId(nextId), connectionStart, t, f, color))
       ELSE UNCHANGED << relationships, nextId >>
    /\ UNCHANGED << tables, selectedTableId, zoom, offset, isDraggingCanvas, dragStart,
                    draggingTableId, highlightedColor, mousePos, pointer, moves,
                    prompt, isGenerating >>
    /\ UNCHANGED upload
    /\ Log("connect", t, f, outcome)

\* TableNode handleProps.onClick: onConnect(table.id, field.id) of a rendered field
HandleClick(t, f) ==
    /\ HasField(tables, t, f)
    /\ handleConnect(t, f)
    /\ gesture' = NoGesture

(***************************************************************************)
(* Canvas.handleTableDelete(id): the table's delete button.                *)
(***************************************************************************)
handleTableDelete(id) ==
    /\ tables' = TablesAfterDelete(tables, id)
    /\ relationships' = RelsAfterTableDelete(relationships, id)
    /\ UNCHANGED << selectedTableId, zoom, offset, isDraggingCanvas, dragStart,
                    draggingTableId, connectionStart, highlightedColor, contextMenu,
                    mousePos, pointer, nextId, moves, prompt, isGenerating >>

TableDelete(id) ==
    /\ id \in TableIds(tables)
    /\ handleTableDelete(id)
    /\ gesture' = NoGesture
    /\ UNCHANGED upload
    /\ Log("tableDelete", id, Null, "deleted")

(***************************************************************************)
(* TableNode.handleRemoveField(fieldId) -> Canvas.handleTableUpdate.       *)
(***************************************************************************)
handleRemoveField(id, f) ==
    /\ tables' = TablesAfterRemoveField(tables, id, f)
    /\ relationships' = RelsAfterRemoveField(relationships, id, f)
    /\ UNCHANGED << selectedTableId, zoom, offset, isDraggingCanvas, dragStart,
                    draggingTableId, connectionStart, highlightedColor, contextMenu,
                    mousePos, pointer, nextId, moves, prompt, isGenerating >>

RemoveField(id, f) ==
    /\ HasField(tables, id, f)
    /\ handleRemoveField(id, f)
    /\ gesture' = NoGesture
    /\ UNCHANGED upload
    /\ Log("removeField", id, f, "removed")

(***************************************************************************)
(* Canvas.handleTableUpdate as TableNode calls it: the description text    *)
(* area, the image input (a FileReader whose onloadend calls the onUpdate  *)
(* and table.id of the render in which the file was chosen) and the image  *)
(* remove button.                                                          *)
(***************************************************************************)
\* tables.map(t => t.id === id ? { ...t, ...updates } : t)
TablesAfterUpdate(ts, id, updates) ==
    [ i \in 1..Len(ts) |->
        IF ts[i].id = id
        THEN [ k \in DOMAIN ts[i] |-> IF k \in DOMAIN updates THEN updates[k] ELSE ts[i][k] ]
        ELSE ts[i] ]

\* onTablesUpdate(newTables), newTables computed from the tables of the closure
handleTableUpdate(ts, id, updates) ==
    /\ tables' = TablesAfterUpdate(ts, id, updates)
    /\ UNCHANGED << relationships, selectedTableId, zoom, offset, isDraggingCanvas, dragStart,
                    draggingTableId, connectionStart, highlightedColor, contextMenu,
                    mousePos, pointer, nextId, moves, prompt, isGenerating >>

\* the description text area: onUpdate(table.id, { description })
DescriptionChange(t, len) ==
    /\ t \in TableIds(tables)
    /\ handleTableUpdate(tables, t, [description |-> len])
    /\ UNCHANGED << gesture, upload >>
    /\ Log("description", t, len, "updated")

\* handleImageUpload: a file is chosen, reader.readAsDataURL(file) starts
ChooseImage(t) ==
    /\ t \in TableIds(tables)
    /\ ~upload.pending
    /\ upload' = [pending |-> TRUE, tableId |-> t, tables |-> tables]
    /\ UNCHANGED << tables, relationships, selectedTableId, zoom, offset, isDraggingCanvas,
                    dragStart, draggingTableId, connectionStart, highlightedColor,
                    contextMenu, mousePos, pointer, nextId, moves, prompt, isGenerating,
                    gesture >>
    /\ Log("chooseImage", t, Null, "reading")

\* reader.onloadend: onUpdate(table.id, { imageUrl: reader.result })
ImageLoaded(img) ==
    /\ upload.pending
    /\ handleTableUpdate(upload.tables, upload.tableId, [imageUrl |-> img])
    /\ upload' = NoUpload
    /\ UNCHANGED gesture
    /\ Log("imageLoaded", upload.tableId, img, "loaded")

(***************************************************************************)
(* App.handleAddTable: the "Add Table" button.                             *)
(***************************************************************************)
\* window.innerWidth and window.innerHeight
Window == [innerWidth |-> 1320, innerHeight |-> 800]

\* the new table, centered in the viewport right of the 320 wide sidebar: its
\* corner is ((cx - offset.x) / zoom - 140, (cy - offset.y) / zoom - 100)
NewTable(id, fieldId, off, z) ==
    [id |-> id,
     x |-> RatSub(DivZoom((Window.innerWidth - 320) \div 2 - off.x, z), Rat(140, 1)),
     y |-> RatSub(DivZoom(Window.innerHeight \div 2 - off.y, z), Rat(100, 1)),
     fields |-> << fieldId >>, description |-> 0, imageUrl |-> Null]

\* at most MaxNewTables tables are added in a behaviour; each draws two fresh ids
handleAddTable ==
    /\ nextId < 2 * MaxNewTables
    /\ nextId' = nextId + 2
    /\ tables' = Append(tables, NewTable(FreshId(nextId), FreshId(nextId + 1), offset, zoom))
    /\ selectedTableId' = FreshId(nextId)
    /\ UNCHANGED << relationships, zoom, offset, isDraggingCanvas, dragStart,
                    draggingTableId, connectionStart, highlightedColor, contextMenu,
                    mousePos, pointer, moves, prompt, isGenerating >>
    /\ UNCHANGED << gesture, upload >>
    /\ Log("addTable", FreshId(nextId), Null, "added")

(***************************************************************************)
(* Canvas.handleDisconnectField: the Unlink button of a connected field.   *)
(***************************************************************************)
\* variant: only the relationships leaving the field are removed
RelsAfterDisconnectSourceOnly(rels, t, f) ==
    LET Kept(r) == ~(r.sourceTableId = t /\ r.sourceFieldId = f) IN SelectSeq(rels, Kept)

\* relationships.filter(r => !(source is (t, f) || target is (t, f)))
RelsAfterDisconnect(rels, t, f) ==
    LET Kept(r) == ~TouchesField(r, t, f) IN SelectSeq(rels, Kept)

handleDisconnectField(t, f) ==
    /\ relationships' = RelsAfterDisconnect(relationships, t, f)
    /\ UNCHANGED << tables, selectedTableId, zoom, offset, isDraggingCanvas, dragStart,
                    draggingTableId, connectionStart, highlightedColor, contextMenu,
                    mousePos, pointer, nextId, moves, prompt, isGenerating >>

\* the button is rendered for a field with a color in fieldColors; its click does
\* not propagate
DisconnectField(t, f) ==
    /\ HasField(tables, t, f)
    /\ fieldColors(relationships, f) # Null
    /\ handleDisconnectField(t, f)
    /\ UNCHANGED << gesture, upload >>
    /\ Log("disconnect", t, f, "disconnected")

(***************************************************************************)
(* Context menus: right-click on a relationship edge, or on a field row /  *)
(* handle of a field that has a color in fieldColors.                      *)
(***************************************************************************)
handleRelationshipContextMenu(r) ==
    /\ contextMenu' = [open |-> TRUE,
                       x |-> pointer.x - CanvasRect.x, y |-> pointer.y - CanvasRect.y,
                       color |-> EffectiveColor(r), tableId |-> Null, fieldId |-> Null,
                       relationshipId |-> r.id]
    /\ UNCHANGED << tables, relationships, selectedTableId, zoom, offset, isDraggingCanvas,
                    dragStart, draggingTableId, connectionStart, highlightedColor,
                    mousePos, pointer, nextId, moves, prompt, isGenerating >>

\* the edge is rendered only when both tables are found (renderConnectionLine)
RelationshipContextMenu(i) ==
    /\ i \in 1..Len(relationships)
    /\ relationships[i].sourceTableId \in TableIds(tables)
    /\ relationships[i].targetTableId \in TableIds(tables)
    /\ handleRelationshipContextMenu(relationships[i])
    /\ UNCHANGED gesture
    /\ UNCHANGED upload
    /\ Log("relationshipContextMenu", relationships[i].id, Null, "menu")

handleFieldContextMenu(t, f, color) ==
    LET i == FirstIndex(AtField(relationships, t, f)) IN
    /\ contextMenu' = [open |-> TRUE,
                       x |-> pointer.x - CanvasRect.x, y |-> pointer.y - CanvasRect.y,
                       color |-> color, tableId |-> t, fieldId |-> f,
                       relationshipId |-> IF i = 0 THEN Null ELSE relationships[i].id]
    /\ UNCHANGED << tables, relationships, selectedTableId, zoom, offset, isDraggingCanvas,
                    dragStart, draggingTableId, connectionStart, highlightedColor,
                    mousePos, pointer, nextId, moves, prompt, isGenerating >>

\* TableNode: onContextMenu fires only if (fieldColor), with color = fieldColors[field.id]
FieldContextMenu(t, f) ==
    /\ HasField(tables, t, f)
    /\ fieldColors(relationships, f) # Null
    /\ handleFieldContextMenu(t, f, fieldColors(relationships, f))
    /\ UNCHANGED gesture
    /\ UNCHANGED upload
    /\ Log("fieldContextMenu", t, f, "menu")

(***************************************************************************)
(* The context menu's controls and the Focus Mode Indicator.               *)
(***************************************************************************)
\* variant: every relationship of the flow (the color of relationship id) is recolored
RecoloredFlow(rels, id, newColor) ==
    [ i \in 1..Len(rels) |->
        IF \E j \in 1..Len(rels) : rels[j].id = id /\ rels[j].color = rels[i].color
        THEN [rels[i] EXCEPT !.color = newColor]
        ELSE rels[i] ]

\* relationships.map(r => r.id === id ? { ...r, color: newColor } : r)
Recolored(rels, id, newColor) ==
    [ i \in 1..Len(rels) |-> IF rels[i].id = id THEN [rels[i] EXCEPT !.color = newColor]
                             ELSE rels[i] ]

\* relationships.filter(r => r.id !== id)
RelsAfterRelationshipDelete(rels, id) ==
    LET Kept(r) == r.id # id IN SelectSeq(rels, Kept)

\* a color of the grid is clicked
handleColorChange(newColor) ==
    /\ IF contextMenu.relationshipId # Null
       THEN /\ relationships' = Recolored(relationships, contextMenu.relationshipId, newColor)
            /\ contextMenu' = NullMenu
            /\ highlightedColor' = IF highlightedColor = contextMenu.color THEN newColor
                                   ELSE highlightedColor
       ELSE UNCHANGED << relationships, contextMenu, highlightedColor >>
    /\ UNCHANGED << tables, selectedTableId, zoom, offset, isDraggingCanvas, dragStart,
                    draggingTableId, connectionStart, mousePos, pointer, nextId, moves,
                    prompt, isGenerating >>

ColorChange(c) ==
    /\ contextMenu.open
    /\ handleColorChange(c)
    /\ UNCHANGED gesture
    /\ UNCHANGED upload
    /\ Log("colorChange", c, Null, IF contextMenu.relationshipId # Null THEN "recolored" ELSE "ignored")

\* variant: the focus is set through the color change of the menu's relationship
focusThisFlowViaColorChange ==
    /\ highlightedColor' = contextMenu.color
    /\ contextMenu' = NullMenu
    /\ relationships' = Recolored(relationships, contextMenu.relationshipId, contextMenu.color)
    /\ UNCHANGED << tables, selectedTableId, zoom, offset, isDraggingCanvas, dragStart,
                    draggingTableId, connectionStart, mousePos, pointer, nextId, moves,
                    prompt, isGenerating >>

\* "Focus this Flow": setHighlightedColor(contextMenu.color); setContextMenu(null)
focusThisFlow ==
    /\ highlightedColor' = contextMenu.color
    /\ contextMenu' = NullMenu
    /\ UNCHANGED << tables, relationships, selectedTableId, zoom, offset, isDraggingCanvas,
                    dragStart, draggingTableId, connectionStart, mousePos, pointer, nextId,
                    moves, prompt, isGenerating >>

\* the button is rendered when highlightedColor differs from the menu's color
FocusThisFlow ==
    /\ contextMenu.open
    /\ highlightedColor # contextMenu.color
    /\ focusThisFlow
    /\ UNCHANGED gesture
    /\ UNCHANGED upload
    /\ Log("focus", contextMenu.color, Null, IF highlightedColor = Null THEN "set" ELSE "changed")

\* "Exit Focus Mode": setHighlightedColor(null); setContextMenu(null)
exitFocusMode ==
    /\ highlightedColor' = Null
    /\ contextMenu' = NullMenu
    /\ UNCHANGED << tables, relationships, selectedTableId, zoom, offset, isDraggingCanvas,
                    dragStart, draggingTableId, connectionStart, mousePos, pointer, nextId,
                    moves, prompt, isGenerating >>

\* the button is rendered when highlightedColor equals the menu's color
ExitFocusMode ==
    /\ contextMenu.open
    /\ highlightedColor = contextMenu.color
    /\ exitFocusMode
    /\ UNCHANGED gesture
    /\ UNCHANGED upload
    /\ Log("exitFocus", contextMenu.color, Null, "cleared")

\* the X of the Focus Mode Indicator, rendered while a color is highlighted
FocusIndicatorClose ==
    /\ highlightedColor # Null
    /\ highlightedColor' = Null
    /\ UNCHANGED << tables, relationships, selectedTableId, zoom, offset, isDraggingCanvas,
                    dragStart, draggingTableId, connectionStart, contextMenu, mousePos,
                    pointer, nextId, moves, prompt, isGenerating >>
    /\ UNCHANGED gesture
    /\ UNCHANGED upload
    /\ Log("focusClose", Null, Null, "cleared")

handleRelationshipDelete(id) ==
    /\ relationships' = RelsAfterRelationshipDelete(relationships, id)
    /\ UNCHANGED << tables, selectedTableId, zoom, offset, isDraggingCanvas, dragStart,
                    draggingTableId, connectionStart, highlightedColor, mousePos, pointer,
                    nextId, moves, prompt, isGenerating >>

\* "Delete Connection", rendered when the menu holds a relationshipId
MenuDeleteConnection ==
    /\ contextMenu.open
    /\ contextMenu.relationshipId # Null
    /\ handleRelationshipDelete(contextMenu.relationshipId)
    /\ contextMenu' = NullMenu
    /\ UNCHANGED gesture
    /\ UNCHANGED upload
    /\ Log("deleteConnection", contextMenu.relationshipId, Null, "deleted")

(***************************************************************************)
(* Dimming of tables while a color is highlighted.                         *)
(***************************************************************************)
\* Canvas, tables.map: relationships.some(r => r.color === highlightedColor && ...)
isRelatedToHighlight(rels, hc, table) ==
    IF hc # Null
    THEN \E i \in 1..Len(rels) : rels[i].color = hc /\ TouchesTable(rels[i], table.id)
    ELSE TRUE

\* the isDimmed prop Canvas passes; TableNode does not read it
isDimmed(rels, hc, table) ==
    IF hc # Null THEN ~isRelatedToHighlight(rels, hc, table) ELSE FALSE

\* TableNode: table.fields.some(f => fieldColors[f.id] === highlightedColor)
hasHighlightedField(rels, hc, table) ==
    IF hc # Null
    THEN \E k \in 1..Len(table.fields) : fieldColors(rels, table.fields[k]) = hc
    ELSE TRUE

\* TableNode: the table is drawn with opacity 0.2
isTableDimmed(rels, hc, table) == hc # Null /\ ~hasHighlightedField(rels, hc, table)

(***************************************************************************)
(* App.handleFileChange: reader.onload on a chosen file.  A file is        *)
(* [json, value]: json tells whether JSON.parse accepts the content, value *)
(* is what it returns.                                                     *)
(***************************************************************************)
\* variant: the properties are only tested for truthiness
ValidGraphTruthy(data) == Truthy(data.tables) /\ Truthy(data.relationships)

\* data.tables && Array.isArray(data.tables) && data.relationships && Array.isArray(...)
ValidGraph(data) ==
    /\ Truthy(data.tables) /\ IsArray(data.tables)
    /\ Truthy(data.relationships) /\ IsArray(data.relationships)

\* JSON.parse throws, or data.tables throws a TypeError on null: the catch branch
ImportThrows(file) == ~file.json \/ file.value.kind = "null"

ImportOutcome(file) ==
    IF ImportThrows(file) THEN "alert: Failed to parse the file."
    ELSE IF ValidGraph(file.value) THEN "replaced"
    ELSE "alert: Invalid file format."

handleFileChange(file) ==
    /\ IF ImportOutcome(file) = "replaced"
       THEN /\ tables' = file.value.tables
            /\ relationships' = file.value.relationships
       ELSE UNCHANGED << tables, relationships >>
    /\ UNCHANGED << selectedTableId, zoom, offset, isDraggingCanvas, dragStart,
                    draggingTableId, connectionStart, highlightedColor, contextMenu,
                    mousePos, pointer, nextId, moves, prompt, isGenerating >>
    /\ UNCHANGED upload
    /\ Log("import", file, Null, ImportOutcome(file))

ImportFile(file) ==
    /\ handleFileChange(file)
    /\ gesture' = NoGesture

(***************************************************************************)
(* App.handleGenerateAI and generateSchemaFromPrompt.  The click starts    *)
(* the call; its result arrives in a later step.  A result is [kind,       *)
(* value]: the call throws ("noApiKey", "requestError", "emptyResponse",   *)
(* "unparsable") or returns the parsed response text ("parsed").           *)
(***************************************************************************)
AIFailures == { "noApiKey", "requestError", "emptyResponse", "unparsable" }

\* the catch branch: the call threw, or data.tables threw a TypeError on null
GenerateThrows(res) == res.kind \in AIFailures \/ res.value.kind = "null"

\* variant: the flag is reset on success only
GeneratingAfterSuccessOnly(res) == GenerateThrows(res)

\* finally { setIsGenerating(false) }
GeneratingAfter(res) == FALSE

\* onChange of the prompt text area
SetPrompt(text) ==
    /\ prompt' = text
    /\ UNCHANGED << tables, relationships, selectedTableId, isGenerating, zoom, offset,
                    isDraggingCanvas, dragStart, draggingTableId, connectionStart,
                    highlightedColor, contextMenu, mousePos, pointer, nextId, moves,
                    gesture >>
    /\ UNCHANGED upload
    /\ Log("setPrompt", Null, Null, text)

\* the Generate button: disabled={isGenerating || !prompt.trim()}
handleGenerateAI ==
    /\ ~isGenerating
    /\ prompt # ""
    /\ isGenerating' = TRUE
    /\ UNCHANGED << tables, relationships, selectedTableId, prompt, zoom, offset,
                    isDraggingCanvas, dragStart, draggingTableId, connectionStart,
                    highlightedColor, contextMenu, mousePos, pointer, nextId, moves,
                    gesture >>
    /\ UNCHANGED upload
    /\ Log("generate", Null, Null, "started")

\* the rest of handleGenerateAI, after await generateSchemaFromPrompt(prompt)
GenerateSettled(res) ==
    /\ isGenerating
    /\ IF GenerateThrows(res)
       THEN UNCHANGED << tables, relationships >>
       ELSE /\ tables' = res.value.tables
            /\ relationships' = res.value.relationships
    /\ isGenerating' = GeneratingAfter(res)
    /\ UNCHANGED << selectedTableId, prompt, zoom, offset, isDraggingCanvas, dragStart,
                    draggingTableId, connectionStart, highlightedColor, contextMenu,
                    mousePos, pointer, nextId, moves, gesture >>
    /\ UNCHANGED upload
    /\ Log("aiResult", res, Null, IF GenerateThrows(res) THEN "alert" ELSE "replaced")

(***************************************************************************)
(* App.handleDownloadFile (Save to file), and an import of the file it     *)
(* wrote.                                                                  *)
(***************************************************************************)
handleDownloadFile ==
    /\ UNCHANGED << tables, relationships, selectedTableId, zoom, offset, isDraggingCanvas,
                    dragStart, draggingTableId, connectionStart, highlightedColor,
                    contextMenu, mousePos, pointer, nextId, moves, gesture,
                    prompt, isGenerating >>
    /\ UNCHANGED upload
    /\ Log("download", Null, Null, "saved")

SavedFile == [json |-> TRUE, value |-> Parse(saved.text)]

ImportSaved ==
    /\ saved.present
    /\ ImportFile(SavedFile)

(***************************************************************************)
(* The Export SQL button: the dialog opens and renders generateSQL().      *)
(***************************************************************************)
ExportSQL ==
    /\ UNCHANGED << tables, relationships, selectedTableId, zoom, offset, isDraggingCanvas,
                    dragStart, draggingTableId, connectionStart, highlightedColor,
                    contextMenu, mousePos, pointer, nextId, moves, gesture,
                    prompt, isGenerating >>
    /\ UNCHANGED upload
    /\ Log("exportSQL", Null, Null, "shown")

(***************************************************************************)
(* Inputs of the events.                                                   *)
(***************************************************************************)
\* the connection handles the model clicks: (table id, field id)
ClickHandles == { <<1, 11>>, <<1, 12>>, <<2, 22>>, <<2, 23>>, <<3, 31>> }

\* the fields whose delete button the model presses
RemovableFields == { <<1, 11>>, <<2, 23>> }

\* pointer movements (movementX, movementY)
Deltas == { Point(10, -4) }

\* mouse buttons: 0 primary, 2 secondary
Buttons == { 0, 2 }

\* files offered to the import dialog
ImportFiles ==
    { [json |-> TRUE, value |-> JsonObject(<< Table(3, 0, 0, <<31, 32>>) >>, << >>)],
      [json |-> FALSE, value |-> JsonNull],
      [json |-> TRUE, value |-> JsonNull],
      [json |-> TRUE, value |-> JsonObject(<< Table(3, 0, 0, <<31, 32>>) >>, Undefined)],
      [json |-> TRUE, value |-> JsonObject(NotArray, << >>)] }

\* prompts typed into the text area
Prompts == { "", "a blog" }

\* what the AI call delivers: the four failures, and response texts that parse to
\* null, to a graph (relationships at table level, without color), to an object
\* without relationships, and to an empty object
AIResults ==
    { [kind |-> k, value |-> JsonNull] : k \in AIFailures }
    \cup { [kind |-> "parsed", value |-> v] :
             v \in { JsonNull,
                     JsonObject(<< Table(3, 0, 0, <<31, 32>>), Table(4, 300, 0, <<41, 42>>) >>,
                                << Relationship(5, 4, Null, 3, Null, "1:N", Null) >>),
                     JsonObject(<< Table(3, 0, 0, <<31, 32>>) >>, Undefined),
                     JsonObject(Undefined, Undefined) } }

(***************************************************************************)
(* The state after App and Canvas are constructed.                         *)
(***************************************************************************)
InitView ==
    /\ selectedTableId = Null
    /\ prompt = ""
    /\ isGenerating = FALSE
    /\ zoom = 1000
    /\ offset = Point(0, 0)
    /\ isDraggingCanvas = FALSE
    /\ dragStart = Point(0, 0)
    /\ draggingTableId = Null
    /\ connectionStart = NullConnection
    /\ highlightedColor = Null
    /\ contextMenu = NullMenu
    /\ mousePos = Point(Rat(0, 1), Rat(0, 1))
    /\ pointer = Point(0, 0)
    /\ moves = 0
    /\ gesture = NoGesture
    /\ track = NoTrack
    /\ shown = << >>
    /\ saved = NoFile
    /\ upload = NoUpload
    /\ ev = Event("init", Null, Null, "init")

Init ==
    /\ tables = InitialTables
    /\ relationships = InitialRelationships
    /\ nextId = 0
    /\ InitView
    /\ prev = Snapshot

(***************************************************************************)
(* Spec: editing the graph (connect clicks, deletions, import) with the    *)
(* canvas pointer-down / pointer-up that cancel a pending connection.      *)
(***************************************************************************)
Next ==
    \/ \E h \in ClickHandles : HandleClick(h[1], h[2])
    \/ \E id \in 1..3 : TableDelete(id)
    \/ \E h \in RemovableFields : RemoveField(h[1], h[2])
    \/ \E file \in ImportFiles : ImportFile(file)
    \/ CanvasMouseDown(0, FALSE)
    \/ MouseUp

Spec == Init /\ [][Next]_vars

(***************************************************************************)
(* SpecGesture: the pointer events of the canvas on the initial graph.     *)
(***************************************************************************)
GestureHandles == { <<1, 11>>, <<2, 23>> }

NextGesture ==
    \/ \E b \in Buttons, inMenu \in BOOLEAN : CanvasMouseDown(b, inMenu)
    \/ \E id \in 1..2 : TableBodyMouseDown(id)
    \/ \E h \in GestureHandles : HandleMouseDown(h[1], h[2])
    \/ \E d \in Deltas : MouseMove(d)
    \/ MouseUp
    \/ MouseLeave
    \/ \E h \in GestureHandles : HandleClick(h[1], h[2])
    \/ \E h \in GestureHandles : FieldContextMenu(h[1], h[2])
    \/ \E i \in 1..(1 + MaxNewRels) : RelationshipContextMenu(i)

SpecGesture == Init /\ [][NextGesture]_vars

(***************************************************************************)
(* SpecMode: the interaction modes of the canvas: pan, table drag, pending *)
(* connection and context menu, started and ended in any order.            *)
(***************************************************************************)
ModeHandles == { <<1, 11>>, <<2, 22>> }

NextMode ==
    \/ \E b \in Buttons, inMenu \in BOOLEAN : CanvasMouseDown(b, inMenu)
    \/ TableBodyMouseDown(1)
    \/ \E d \in Deltas : MouseMove(d)
    \/ MouseUp
    \/ MouseLeave
    \/ \E h \in ModeHandles : HandleClick(h[1], h[2])
    \/ FieldContextMenu(2, 22)

SpecMode == Init /\ [][NextMode]_vars

(***************************************************************************)
(* SpecAI: AI generation while the graph is edited.                        *)
(***************************************************************************)
AIHandles == { <<1, 11>>, <<2, 22>>, <<3, 31>>, <<4, 41>> }

NextAI ==
    \/ \E text \in Prompts : Rendered /\ SetPrompt(text)
    \/ Rendered /\ handleGenerateAI
    \/ \E res \in AIResults : GenerateSettled(res)
    \/ \E h \in AIHandles : Rendered /\ HandleClick(h[1], h[2])
    \/ \E id \in 1..2 : Rendered /\ TableDelete(id)

SpecAI == Init /\ [][NextAI]_vars

(***************************************************************************)
(* SpecZoom: wheel events and zoom button presses.                         *)
(***************************************************************************)
\* e.deltaY of the wheel events
WheelDeltas == { -1500, -130, 70, 900 }

NextZoom ==
    \/ \E deltaY \in WheelDeltas : Wheel(deltaY)
    \/ ZoomInClick
    \/ ZoomOutClick

SpecZoom == Init /\ [][NextZoom]_vars

(***************************************************************************)
(* SpecView: panning the canvas and dragging tables at several zoom        *)
(* levels.                                                                 *)
(***************************************************************************)
ViewDeltas == { Point(12, -6), Point(-5, 9) }

ViewWheelDeltas == { -1000 }

NextView ==
    \/ CanvasMouseDown(0, FALSE)
    \/ \E id \in 1..2 : TableBodyMouseDown(id)
    \/ \E d \in ViewDeltas : PointerMove(d, MaxViewMoves)
    \/ MouseUp
    \/ \E deltaY \in ViewWheelDeltas : Wheel(deltaY)

SpecView == Init /\ [][NextView]_vars

(***************************************************************************)
(* SpecDDL: the export of graphs as an import leaves them: tables Users    *)
(* (id, username) and Posts (user_id, title) with any selection, in order, *)
(* of the relationships DDLShapes, edited by a connect gesture, a table    *)
(* deletion or a field removal.                                            *)
(***************************************************************************)
DDLTables ==
    << Table(1, 100, 100, <<11, 12>>), Table(4, 500, 100, <<41, 42>>) >>

\* two foreign keys of Posts, a table-level relationship, one whose source field
\* is not a field of Posts, one to a missing table, and a foreign key of Users
DDLShapes ==
    << [st |-> 4, sf |-> 41, tt |-> 1, tf |-> 11],
       [st |-> 4, sf |-> Null, tt |-> 1, tf |-> Null],
       [st |-> 4, sf |-> 11, tt |-> 1, tf |-> 11],
       [st |-> 4, sf |-> 42, tt |-> 1, tf |-> 12],
       [st |-> 4, sf |-> 42, tt |-> 9, tf |-> 91],
       [st |-> 1, sf |-> 12, tt |-> 4, tf |-> 42] >>

\* the relationships of DDLShapes picked by the set S of indices, in order
RECURSIVE DDLRels(_, _)
DDLRels(S, k) ==
    IF k > Len(DDLShapes) THEN << >>
    ELSE (IF k \in S
          THEN << Relationship(k, DDLShapes[k].st, DDLShapes[k].sf, DDLShapes[k].tt,
                               DDLShapes[k].tf, "1:N", DefaultBlue) >>
          ELSE << >>) \o DDLRels(S, k + 1)

DDLHandles == { <<1, 11>>, <<4, 41>> }

InitDDL ==
    /\ tables = DDLTables
    /\ \E S \in SUBSET (1..Len(DDLShapes)) : relationships = DDLRels(S, 1)
    /\ nextId = MaxNewRels - 1
    /\ InitView
    /\ prev = Snapshot

NextDDL ==
    \/ \E h \in DDLHandles : HandleClick(h[1], h[2])
    \/ TableDelete(1)
    \/ RemoveField(4, 41)
    \/ ExportSQL

SpecDDL == InitDDL /\ [][NextDDL]_vars

(***************************************************************************)
(* SpecColor: connect gestures on graphs as an import leaves them: three   *)
(* tables and up to MaxPreRels relationships, colored or not, at field or  *)
(* at table level.  One relationship is created in each behaviour.         *)
(***************************************************************************)
ColorTables ==
    << Table(1, 100, 100, <<11, 12>>), Table(2, 500, 100, <<21, 22>>),
       Table(3, 900, 100, <<31, 32>>) >>

\* endpoints of the relationships a starting graph may hold
Shapes ==
    << [st |-> 1, sf |-> 11, tt |-> 2, tf |-> 21],
       [st |-> 2, sf |-> 22, tt |-> 3, tf |-> 31],
       [st |-> 3, sf |-> 32, tt |-> 1, tf |-> 11],
       [st |-> 1, sf |-> Null, tt |-> 3, tf |-> Null] >>

\* their colors: none, and two palette entries
PreColors == { Null, 1, 2 }

PreRelSeqs(n) ==
    { [ i \in 1..n |->
          Relationship(i, Shapes[s[i][1]].st, Shapes[s[i][1]].sf, Shapes[s[i][1]].tt,
                       Shapes[s[i][1]].tf, "1:N", s[i][2]) ] :
      s \in { q \in [1..n -> (1..Len(Shapes)) \X PreColors] :
                \A i, j \in 1..n : i < j => q[i][1] # q[j][1] } }

ColorHandles == { <<1, 11>>, <<1, 12>>, <<2, 21>>, <<2, 22>>, <<3, 31>> }

InitColor ==
    /\ tables = ColorTables
    /\ \E n \in 0..MaxPreRels : relationships \in PreRelSeqs(n)
    /\ nextId = MaxNewRels - 1
    /\ InitView
    /\ prev = Snapshot

NextColor == \E h \in ColorHandles : HandleClick(h[1], h[2])

SpecColor == InitColor /\ [][NextColor]_vars

(***************************************************************************)
(* SpecFile: saving the graph to a file and importing it again, on graphs  *)
(* with colored, uncolored and table-level relationships, with edits and   *)
(* a table drag at zoom 2 or 3 in between.                                 *)
(***************************************************************************)
\* a colored, an uncolored and a table-level relationship
FileRelationships ==
    << Relationship(1, 1, 11, 2, 21, "1:N", 1),
       Relationship(2, 2, 22, 3, 31, "1:N", Null),
       Relationship(3, 1, Null, 3, Null, "1:N", 2) >>

InitFile ==
    /\ tables = ColorTables
    /\ relationships = FileRelationships
    /\ nextId = MaxNewRels - 1
    /\ InitView
    /\ prev = Snapshot

FileHandles == { <<1, 12>>, <<2, 22>> }

NextFile ==
    \/ handleDownloadFile
    \/ ImportSaved
    \/ \E h \in FileHandles : HandleClick(h[1], h[2])
    \/ TableDelete(3)
    \/ \E deltaY \in ViewWheelDeltas : Wheel(deltaY)
    \/ TableBodyMouseDown(1)
    \/ PointerMove(Point(-5, 9), MaxMoves)

SpecFile == InitFile /\ [][NextFile]_vars

(***************************************************************************)
(* SpecMenu: context menus, recoloring, focus and deletion of connections  *)
(* on a graph where a field carries two relationships of different colors  *)
(* and two tables are joined at table level.                               *)
(***************************************************************************)
MenuRelationships ==
    << Relationship(1, 1, 11, 2, 21, "1:N", 1),
       Relationship(2, 3, 32, 1, 11, "1:N", 2),
       Relationship(3, 2, Null, 3, Null, "1:N", 3),
       Relationship(4, 2, 22, 3, 31, "1:N", Null) >>

InitMenu ==
    /\ tables = ColorTables
    /\ relationships = MenuRelationships
    /\ nextId = MaxNewRels - 1
    /\ InitView
    /\ prev = Snapshot

MenuHandles == { <<1, 11>>, <<3, 31>> }

\* the color picked in the grid
MenuColors == { 5 }

NextMenu ==
    \/ \E i \in 1..Len(MenuRelationships) : RelationshipContextMenu(i)
    \/ \E h \in MenuHandles : FieldContextMenu(h[1], h[2])
    \/ \E c \in MenuColors : ColorChange(c)
    \/ FocusThisFlow
    \/ ExitFocusMode
    \/ FocusIndicatorClose
    \/ MenuDeleteConnection
    \/ \E h \in MenuHandles : DisconnectField(h[1], h[2])
    \/ HandleClick(1, 12)
    \/ HandleClick(2, 22)

SpecMenu == InitMenu /\ [][NextMenu]_vars

(***************************************************************************)
(* SpecTable: the tables of the initial graph edited in place: description *)
(* typed, image uploaded, a field removed, a table dragged, a table        *)
(* deleted; the edges are routed in every state.                           *)
(***************************************************************************)
\* lengths of the description typed: none, two lines
DescriptionLengths == { 0, 43 }

\* the data URL the reader delivers
Images == { 1 }

\* the initial graph after a connect gesture from Users.username to Logs.action and a
\* table-level one from Users to Logs
TableRelationships ==
    InitialRelationships
        \o << Relationship(2, 1, 12, 2, 23, "1:N", 1), Relationship(3, 1, Null, 2, Null, "1:N", 2) >>

InitTable ==
    /\ tables = InitialTables
    /\ relationships = TableRelationships
    /\ nextId = MaxNewRels
    /\ InitView
    /\ prev = Snapshot

NextTable ==
    \/ \E len \in DescriptionLengths : DescriptionChange(1, len)
    \/ ChooseImage(1)
    \/ \E img \in Images : ImageLoaded(img)
    \/ RemoveField(1, 11)
    \/ TableDelete(1)
    \/ TableBodyMouseDown(2)
    \/ \E d \in Deltas : MouseMove(d)
    \/ MouseUp

SpecTable == InitTable /\ [][NextTable]_vars

(***************************************************************************)
(* SpecSelect: the selection while tables are added, selected, deleted and *)
(* the graph is replaced by an import or by an AI result.                  *)
(***************************************************************************)
\* the tables pressed and deleted: the initial ones, the added one, an imported one
SelectTables == { 1, 2, 3, FreshId(0) }

NextSelect ==
    \/ Rendered /\ handleAddTable
    \/ \E id \in SelectTables : Rendered /\ TableBodyMouseDown(id)
    \/ MouseUp
    \/ CanvasMouseDown(0, FALSE)
    \/ \E id \in SelectTables : Rendered /\ TableDelete(id)
    \/ \E file \in ImportFiles : ImportFile(file)
    \/ \E text \in Prompts : SetPrompt(text)
    \/ handleGenerateAI
    \/ \E res \in AIResults : GenerateSettled(res)

SpecSelect == Init /\ [][NextSelect]_vars

(***************************************************************************)
(*                              PROPERTIES                                 *)
(***************************************************************************)
Last(s) == s[Len(s)]

Created == ev.op = "connect" /\ ev.outcome = "created"

\* the (table, field) pairs a relationship joins
SourceEnd(r) == << r.sourceTableId, r.sourceFieldId >>
TargetEnd(r) == << r.targetTableId, r.targetFieldId >>

Joins(r, a, b) ==
    \/ (SourceEnd(r) = a /\ TargetEnd(r) = b)
    \/ (SourceEnd(r) = b /\ TargetEnd(r) = a)

\* the endpoint a connect click names, and the pending source it met
ClickedEnd == << ev.t, ev.f >>
PendingEnd == << prev.connectionStart.tableId, prev.connectionStart.fieldId >>

(* C1: after handleTableDelete(T) the relationships are the previous        *)
(* relationships, in order, without exactly those whose source or target    *)
(* table is T, and the tables are the previous tables without T.            *)
TableDeleteCascade ==
    ev.op = "tableDelete" =>
        /\ relationships =
              SelectSeq(prev.relationships,
                        LAMBDA r : ~(r.sourceTableId = ev.t \/ r.targetTableId = ev.t))
        /\ tables = SelectSeq(prev.tables, LAMBDA t : t.id # ev.t)

\* a deletion that removed a relationship and kept another
TableDeleteCascadeSeen ==
    /\ ev.op = "tableDelete"
    /\ Len(relationships) < Len(prev.relationships)
    /\ Len(relationships) > 0

(* C2: removing field F of a table removes, in the same step, exactly the   *)
(* relationships whose sourceFieldId or targetFieldId is F.                 *)
FieldRemoveCascade ==
    ev.op = "removeField" =>
        relationships =
            SelectSeq(prev.relationships,
                      LAMBDA r : ~(r.sourceFieldId = ev.f \/ r.targetFieldId = ev.f))

(* C3: at most one of panning, table dragging and awaiting a connection     *)
(* target is active.                                                        *)
ActiveModes ==
    (IF isDraggingCanvas THEN { "pan" } ELSE { })
        \cup (IF draggingTableId # Null THEN { "drag" } ELSE { })
        \cup (IF connectionStart # NullConnection THEN { "connect" } ELSE { })

OneModeAtATime == Cardinality(ActiveModes) <= 1

(* C4: no two relationships join the same pair of (table, field) endpoints, *)
(* in either direction, and a connect gesture between endpoints that are    *)
(* already joined leaves the relationships unchanged.                       *)
NoDuplicateConnection ==
    /\ \A i, j \in 1..Len(relationships) :
          i < j => ~Joins(relationships[j], SourceEnd(relationships[i]),
                          TargetEnd(relationships[i]))
    /\ ( /\ ev.op = "connect"
         /\ prev.connectionStart # NullConnection
         /\ \E i \in 1..Len(prev.relationships) :
                Joins(prev.relationships[i], PendingEnd, ClickedEnd) )
       => relationships = prev.relationships

\* a gesture drawn against the direction of the relationship that exists
MirroredAttemptSeen ==
    /\ ev.op = "connect"
    /\ prev.connectionStart # NullConnection
    /\ PendingEnd # ClickedEnd
    /\ \E i \in 1..Len(prev.relationships) :
          /\ SourceEnd(prev.relationships[i]) = ClickedEnd
          /\ TargetEnd(prev.relationships[i]) = PendingEnd

(* C5: clicking the handle that started the pending connection creates no   *)
(* relationship: relationships and tables are unchanged.                    *)
SelfConnectIsNoOp ==
    (ev.op = "connect" /\ prev.connectionStart # NullConnection /\ PendingEnd = ClickedEnd)
        => /\ relationships = prev.relationships
           /\ tables = prev.tables

SelfConnectSeen ==
    /\ ev.op = "connect"
    /\ prev.connectionStart # NullConnection
    /\ PendingEnd = ClickedEnd
    /\ Len(relationships) > 0

(* C6: during a gesture that starts with a pointer-down on a connection     *)
(* handle no table is dragged, the canvas is not panned, and no table       *)
(* position and no pan offset changes.                                      *)
HandleGestureNeverDrags ==
    gesture.kind \in { "handle", "released" } =>
        /\ draggingTableId = Null
        /\ ~isDraggingCanvas
        /\ tables = gesture.tables
        /\ offset = gesture.offset

(* C7: a pending connection always names a table and field that exist, a    *)
(* dragged table exists, and no connect creates a relationship whose        *)
(* source table or field has vanished.                                      *)
StaleGestureCancelled ==
    /\ connectionStart # NullConnection
          => HasField(tables, connectionStart.tableId, connectionStart.fieldId)
    /\ draggingTableId # Null => draggingTableId \in TableIds(tables)
    /\ Created => HasField(tables, Last(relationships).sourceTableId,
                           Last(relationships).sourceFieldId)

(* C8: a relationship created by connect names, when created, a source and  *)
(* a target table of the graph, each with the field it is paired with.      *)
CreatedRelationshipResolves ==
    Created =>
        /\ Last(relationships).sourceTableId \in TableIds(tables)
        /\ Last(relationships).targetTableId \in TableIds(tables)
        /\ \A e \in { SourceEnd(Last(relationships)), TargetEnd(Last(relationships)) } :
              e[2] # Null => HasField(tables, e[1], e[2])

\* the relationships of rels that touch table t / have (table, field) e as an end
Touching(rels, t) ==
    { i \in 1..Len(rels) : rels[i].sourceTableId = t \/ rels[i].targetTableId = t }

OnField(rels, e) ==
    { i \in 1..Len(rels) : SourceEnd(rels[i]) = e \/ TargetEnd(rels[i]) = e }

\* what a color rule yields on the relationships rels: the color of the first
\* relationship the rule matches, Null when it matches none or that one has none
Yield(rels, matching) ==
    IF matching = { }
    THEN Null
    ELSE rels[CHOOSE i \in matching : \A j \in matching : i <= j].color

\* the four rules for the gesture the last event completed, in priority order
RuleYields ==
    LET old == prev.relationships
        src == PendingEnd
        tgt == ClickedEnd
    IN  << IF src[2] # Null THEN Yield(old, OnField(old, src)) ELSE Null,
           IF tgt[2] # Null THEN Yield(old, OnField(old, tgt)) ELSE Null,
           Yield(old, Touching(old, src[1])),
           Yield(old, Touching(old, tgt[1])) >>

(* C9: the color of a created relationship is what the first rule that     *)
(* yields a color yields, in the order source field, target field, source  *)
(* table, target table; it is a palette color when no rule yields one.     *)
ColorByPriority ==
    Created =>
        /\ \A k \in 1..4 :
              (RuleYields[k] # Null /\ \A j \in 1..(k-1) : RuleYields[j] = Null)
                  => Last(relationships).color = RuleYields[k]
        /\ (\A k \in 1..4 : RuleYields[k] = Null)
              => Last(relationships).color \in CONNECTION_COLORS

\* the source field's color won over a different color on the target field
\* and a different color on the target table
SourceFieldColorWins ==
    /\ Created
    /\ RuleYields[1] # Null
    /\ RuleYields[2] # Null /\ RuleYields[2] # RuleYields[1]
    /\ RuleYields[4] # Null /\ RuleYields[4] # RuleYields[1]
    /\ Last(relationships).color = RuleYields[1]

\* table `own` (at end ownEnd of the new relationship) had exactly one
\* relationship, colored, and the field connected now had none
HadOneColored(ownEnd) ==
    /\ Cardinality(Touching(prev.relationships, ownEnd[1])) = 1
    /\ \A i \in Touching(prev.relationships, ownEnd[1]) :
          /\ prev.relationships[i].color # Null
          /\ SourceEnd(prev.relationships[i]) # ownEnd
          /\ TargetEnd(prev.relationships[i]) # ownEnd

TheOneColor(ownEnd) ==
    prev.relationships[CHOOSE i \in Touching(prev.relationships, ownEnd[1]) : TRUE].color

(* C10 as stated: connecting a new field of a table that has one colored   *)
(* relationship gives the new relationship that color, whichever end the   *)
(* table is on and whatever the other endpoint is.                         *)
InheritsTableColorAlways ==
    Created =>
        \A ownEnd \in { PendingEnd, ClickedEnd } :
            HadOneColored(ownEnd) => Last(relationships).color = TheOneColor(ownEnd)

\* no relationship of a color other than c touches field `e` / table `t`
OnlyColorAtField(e, c) ==
    \A i \in 1..Len(prev.relationships) :
        (SourceEnd(prev.relationships[i]) = e \/ TargetEnd(prev.relationships[i]) = e)
            => prev.relationships[i].color \in { Null, c }

OnlyColorAtTable(t, c) ==
    \A i \in Touching(prev.relationships, t) : prev.relationships[i].color \in { Null, c }

(* C10 as amended: the new relationship gets the table's color when no     *)
(* relationship of another color touches the other endpoint: the target    *)
(* field if the table is the source of the gesture, the source table (and  *)
(* so its fields) if the table is the target.                              *)
InheritsTableColor ==
    Created =>
        /\ (HadOneColored(PendingEnd) /\ OnlyColorAtField(ClickedEnd, TheOneColor(PendingEnd)))
              => Last(relationships).color = TheOneColor(PendingEnd)
        /\ (HadOneColored(ClickedEnd) /\ OnlyColorAtTable(PendingEnd[1], TheOneColor(ClickedEnd)))
              => Last(relationships).color = TheOneColor(ClickedEnd)

\* the table was the target of the gesture, the source table carried an
\* uncolored relationship, and the table's color was inherited
InheritsTableColorSeen ==
    /\ Created
    /\ HadOneColored(ClickedEnd)
    /\ OnlyColorAtTable(PendingEnd[1], TheOneColor(ClickedEnd))
    /\ PendingEnd[1] # ClickedEnd[1]
    /\ Touching(prev.relationships, PendingEnd[1]) # { }
    /\ Last(relationships).color = TheOneColor(ClickedEnd)

\* the colors carried by the relationships that touch the pending source field
SourceFieldColors ==
    { prev.relationships[i].color : i \in OnField(prev.relationships, PendingEnd) } \ { Null }

(* C11: when a relationship touching the source field of the pending       *)
(* connection has a color, the created relationship has the color of a     *)
(* relationship touching that field, also when an uncolored relationship   *)
(* touching the field is stored before the colored one.                    *)
SourceFieldColorInherited ==
    (Created /\ PendingEnd[2] # Null /\ SourceFieldColors # { })
        => Last(relationships).color \in SourceFieldColors

(* C12: connecting two tables that no relationship touches creates a       *)
(* relationship whose color is an entry of CONNECTION_COLORS.              *)
FreshPairGetsPaletteColor ==
    ( /\ Created
      /\ Touching(prev.relationships, PendingEnd[1]) = { }
      /\ Touching(prev.relationships, ClickedEnd[1]) = { } )
        => Last(relationships).color \in CONNECTION_COLORS

\* two different untouched tables were connected
FreshPairConnected ==
    /\ Created
    /\ PendingEnd[1] # ClickedEnd[1]
    /\ Touching(prev.relationships, PendingEnd[1]) = { }
    /\ Touching(prev.relationships, ClickedEnd[1]) = { }
    /\ Last(relationships).color \in CONNECTION_COLORS

(* C13: zoom stays within [0.2, 3.0] under any sequence of wheel events    *)
(* and zoom button presses, starting from zoom 1.                          *)
ZoomWithinBounds == zoom >= 200 /\ zoom <= 3000

\* a wheel event that would have left the range at the top, and one at the bottom
ZoomClampedAtTop == ev.op = "wheel" /\ prev.zoom - ev.t > 3000 /\ zoom = 3000

\* the position of dragged table T after the drag: its start position plus
\* the summed pointer movement divided by the zoom
DraggedTo(start) ==
    [ start EXCEPT !.x = RatAdd(@, Rat(track.drag.sum.x * 1000, zoom)),
                   !.y = RatAdd(@, Rat(track.drag.sum.y * 1000, zoom)) ]

(* C14: while table T is dragged at an unchanged zoom z, T's position is   *)
(* its position at drag start plus the sum of the pointer movements        *)
(* divided by z, and every other table is where it was at drag start.      *)
DragFollowsPointerOverZoom ==
    (draggingTableId # Null /\ track.drag.steady) =>
        /\ Len(tables) = Len(track.drag.tables)
        /\ \A i \in 1..Len(tables) :
              tables[i] = IF tables[i].id = draggingTableId
                          THEN DraggedTo(track.drag.tables[i])
                          ELSE track.drag.tables[i]

\* two pointer-moves during a drag at zoom 2: the table moved by half their sum
DraggedAtZoomTwo ==
    /\ draggingTableId = 1
    /\ track.drag.steady
    /\ zoom = 2000
    /\ moves = 2
    /\ ev.op = "mouseMove"
    /\ track.drag.sum = Point(7, 3)
    /\ tables[1].x = Rat(207, 2) /\ tables[1].y = Rat(203, 2)
    /\ tables[2] = track.drag.tables[2]

(* C15: after a pointer-move during a pan the offset is the offset at pan  *)
(* start plus the pointer's displacement since pan start; a pointer-move   *)
(* outside a pan leaves the offset unchanged.                              *)
PanTracksPointer ==
    ev.op = "mouseMove" =>
        IF isDraggingCanvas
        THEN offset = Point(track.pan.offset.x + pointer.x - track.pan.pointer.x,
                            track.pan.offset.y + pointer.y - track.pan.pointer.y)
        ELSE offset = prev.offset

\* the second pan of a behaviour, started away from the origin, after two moves
SecondPanTracked ==
    /\ ev.op = "mouseMove"
    /\ isDraggingCanvas
    /\ track.pan.offset # Point(0, 0)
    /\ track.pan.pointer # Point(0, 0)
    /\ offset # track.pan.offset

\* the statement of the table named `name` in the DDL shown
StatementOf(name) == shown[CHOOSE i \in 1..Len(shown) : shown[i].table = name]

\* the export shows the graph that Users.id -> Posts.user_id, drawn on the two
\* tables without relationships, has produced
ScenarioAExported ==
    /\ ev.op = "exportSQL"
    /\ tables = DDLTables
    /\ Len(relationships) = 1
    /\ relationships[1].id = FreshId(MaxNewRels - 1)
    /\ SourceEnd(relationships[1]) = <<1, 11>>
    /\ TargetEnd(relationships[1]) = <<4, 41>>

(* C16 as stated: connecting Users.id to Posts.user_id on the two tables   *)
(* without relationships gives exactly one relationship, of a palette      *)
(* color, and the DDL of Posts contains FOREIGN KEY (user_id) REFERENCES   *)
(* Users(id).                                                              *)
ScenarioAForeignKeyInPosts ==
    /\ (Created /\ prev.relationships = << >>) => Len(relationships) = 1
    /\ ScenarioAExported =>
          /\ relationships[1].color \in CONNECTION_COLORS
          /\ [field |-> "user_id", refTable |-> "Users", refField |-> "id"]
                \in Range(StatementOf("Posts").foreignKeys)

(* C16 as amended: the gesture gives exactly one relationship, of a        *)
(* palette color, and the clause is written for the table the gesture      *)
(* started from: the DDL of Users contains FOREIGN KEY (id) REFERENCES     *)
(* Posts(user_id), the DDL of Posts contains no foreign-key clause.        *)
ScenarioAForeignKeyInSource ==
    /\ (Created /\ prev.relationships = << >>) => Len(relationships) = 1
    /\ ScenarioAExported =>
          /\ relationships[1].color \in CONNECTION_COLORS
          /\ StatementOf("Users").foreignKeys =
                << [field |-> "id", refTable |-> "Posts", refField |-> "user_id"] >>
          /\ StatementOf("Posts").foreignKeys = << >>

ScenarioAExportSeen ==
    /\ ScenarioAExported
    /\ Len(shown) = 2
    /\ Len(StatementOf("Users").foreignKeys) = 1

\* relationship r is a foreign key of the table with id t in the graph exported
ResolvedForeignKey(r, t) ==
    /\ r.sourceTableId = t
    /\ r.sourceFieldId # Null /\ HasField(tables, t, r.sourceFieldId)
    /\ r.targetFieldId # Null /\ HasField(tables, r.targetTableId, r.targetFieldId)

\* the foreign keys of table t among the first k relationships
ForeignKeysUpTo(t, k) == { i \in 1..k : ResolvedForeignKey(relationships[i], t) }

(* C17: in the DDL shown, the statement of table t has one foreign-key     *)
(* clause for each relationship whose source table is t and whose source   *)
(* field, target table and target field resolve, in relationship order,    *)
(* and no other clause.                                                    *)
ForeignKeysOfSourceOnly ==
    ev.op = "exportSQL" =>
        /\ Len(shown) = Len(tables)
        /\ \A n \in 1..Len(tables) :
              LET t == tables[n].id
                  fks == ForeignKeysUpTo(t, Len(relationships))
              IN  /\ Len(shown[n].foreignKeys) = Cardinality(fks)
                  /\ \A i \in fks :
                        LET r == relationships[i]
                            clause == shown[n].foreignKeys[Cardinality(ForeignKeysUpTo(t, i))]
                        IN  /\ clause.field = FieldName(r.sourceFieldId)
                            /\ clause.refTable = TableName(r.targetTableId)
                            /\ clause.refField = FieldName(r.targetFieldId)

\* Posts exported with two clauses in relationship order, next to a table-level
\* relationship, two dangling ones and a relationship it is the target of
ForeignKeysOfSourceOnlySeen ==
    /\ ev.op = "exportSQL"
    /\ tables = DDLTables
    /\ Len(relationships) = Len(DDLShapes)
    /\ shown[2].foreignKeys =
          << [field |-> "user_id", refTable |-> "Users", refField |-> "id"],
             [field |-> "title", refTable |-> "Users", refField |-> "username"] >>
    /\ Len(shown[1].foreignKeys) = 1

\* what the graph replace interface accepts: an object with both collections
\* present as sequences
WellFormedGraph(json, value) ==
    json /\ value.kind = "object" /\ IsArray(value.tables) /\ IsArray(value.relationships)

(* C18: an import whose content is no valid JSON, or whose parsed value    *)
(* lacks tables or relationships as arrays, is rejected with an alert and  *)
(* leaves tables and relationships as they were.                           *)
MalformedImportRejected ==
    (ev.op = "import" /\ ~WellFormedGraph(ev.t.json, ev.t.value)) =>
        /\ ev.outcome \in { "alert: Failed to parse the file.", "alert: Invalid file format." }
        /\ tables = prev.tables
        /\ relationships = prev.relationships

\* a file with an array of relationships and tables that are no array was
\* rejected, after the graph had been edited
NonArrayImportRejected ==
    /\ ev.op = "import"
    /\ ev.t.json /\ ev.t.value.tables = NotArray /\ ev.t.value.relationships = << >>
    /\ ev.outcome = "alert: Invalid file format."
    /\ Len(relationships) = 2
    /\ relationships = prev.relationships

(* C19: an AI result replaces the graph only if tables and relationships   *)
(* are both present as sequences, otherwise tables and relationships stay  *)
(* as they were; so both are sequences in every reachable state.           *)
AIResultValidated ==
    /\ IsArray(tables) /\ IsArray(relationships)
    /\ ev.op = "aiResult" =>
          IF WellFormedGraph(ev.t.kind = "parsed", ev.t.value)
          THEN tables = ev.t.value.tables /\ relationships = ev.t.value.relationships
          ELSE tables = prev.tables /\ relationships = prev.relationships

(* C20: when the AI call fails (no API key, request error, empty or        *)
(* unparsable response) tables and relationships are unchanged, the        *)
(* failure is reported, and isGenerating is false again, which enables     *)
(* the Generate button for a retry.                                        *)
AIFailureIsRetryable ==
    (ev.op = "aiResult" /\ ev.t.kind \in AIFailures) =>
        /\ tables = prev.tables
        /\ relationships = prev.relationships
        /\ ev.outcome = "alert"
        /\ ~isGenerating
        /\ (prompt # "" => ENABLED handleGenerateAI)

\* an unparsable response arrived after the graph had been edited during the call
AIFailureSeen ==
    /\ ev.op = "aiResult"
    /\ ev.t.kind = "unparsable"
    /\ ev.outcome = "alert"
    /\ ~isGenerating
    /\ prompt # ""
    /\ Len(tables) = 1
    /\ tables = prev.tables

(* C21: importing the file a download wrote gives back the graph the       *)
(* download was taken from: the same tables and fields in the same order,  *)
(* the same relationships in the same order, with the same attributes.     *)
SaveThenImportRestores ==
    (ev.op = "import" /\ saved.present /\ ev.t = SavedFile) =>
        /\ ev.outcome = "replaced"
        /\ tables = saved.graph.tables
        /\ relationships = saved.graph.relationships

\* the graph had been edited after the download, and what came back holds an
\* uncolored relationship, a table-level one and a table at a fractional position
SaveThenImportSeen ==
    /\ ev.op = "import" /\ saved.present /\ ev.t = SavedFile
    /\ prev.tables # tables
    /\ prev.relationships # relationships
    /\ \E i \in 1..Len(relationships) : relationships[i].color = Null
    /\ \E i \in 1..Len(relationships) : relationships[i].sourceFieldId = Null
    /\ \E i \in 1..Len(tables) : tables[i].x.d # 1

(* C22: a primary-button pointer-down on empty canvas ends with the pan    *)
(* active, the drag anchor at pointer minus offset, no table selected, no  *)
(* pending connection and no context menu, whatever the state before.      *)
CanvasDownStartsPan ==
    (ev.op = "canvasMouseDown" /\ ev.t = 0 /\ ev.outcome = "canvas") =>
        /\ isDraggingCanvas
        /\ dragStart = Point(pointer.x - offset.x, pointer.y - offset.y)
        /\ selectedTableId = Null
        /\ connectionStart = NullConnection
        /\ ~contextMenu.open

\* the press met a pending connection and a panned canvas
CanvasDownSeen ==
    /\ ev.op = "canvasMouseDown" /\ ev.t = 0 /\ ev.outcome = "canvas"
    /\ prev.connectionStart # NullConnection
    /\ offset # Point(0, 0)
    /\ isDraggingCanvas

(* C23: a handle click that starts a connection cancels a table drag or a  *)
(* canvas pan in progress: right after it draggingTableId is null and      *)
(* isDraggingCanvas is false.                                              *)
ConnectStartCancelsDrag ==
    (ev.op = "connect" /\ ev.outcome = "start") =>
        /\ draggingTableId = Null
        /\ ~isDraggingCanvas

(* C24: while a connection is pending, a click on its source handle ends   *)
(* with no pending connection and with tables and relationships as they    *)
(* were.                                                                   *)
SameHandleTogglesOff ==
    (ev.op = "connect" /\ prev.connectionStart # NullConnection /\ PendingEnd = ClickedEnd) =>
        /\ connectionStart = NullConnection
        /\ tables = prev.tables
        /\ relationships = prev.relationships

SameHandleToggledOff ==
    /\ ev.op = "connect" /\ ev.outcome = "cancel"
    /\ prev.connectionStart # NullConnection
    /\ PendingEnd = ClickedEnd
    /\ connectionStart = NullConnection

(* C25: while a connection is pending, a click on a different handle ends  *)
(* with no pending connection, whether a relationship was added or the     *)
(* attempt was a duplicate, and adds at most one relationship.             *)
OtherHandleEndsConnection ==
    (ev.op = "connect" /\ prev.connectionStart # NullConnection /\ PendingEnd # ClickedEnd) =>
        /\ connectionStart = NullConnection
        /\ \/ relationships = prev.relationships
           \/ /\ Len(relationships) = Len(prev.relationships) + 1
              /\ SubSeq(relationships, 1, Len(prev.relationships)) = prev.relationships

\* the ignored duplicate
DuplicateEndedConnection ==
    /\ ev.op = "connect" /\ ev.outcome = "duplicate"
    /\ PendingEnd # ClickedEnd
    /\ connectionStart = NullConnection
    /\ relationships = prev.relationships

(* C26: after a pointer-up or pointer-leave neither pan nor table drag is  *)
(* active; the pending connection, the selection, the graph and the view   *)
(* transform are as before the event.                                      *)
PointerUpEndsPanAndDrag ==
    [][ev'.op = "mouseUp" =>
          /\ ~isDraggingCanvas'
          /\ draggingTableId' = Null
          /\ connectionStart' = connectionStart
          /\ selectedTableId' = selectedTableId
          /\ tables' = tables
          /\ relationships' = relationships
          /\ zoom' = zoom
          /\ offset' = offset]_vars

\* a pointer-leave ended the gesture with a connection pending, a table
\* selected and the canvas panned
PointerLeaveSeen ==
    /\ ev.op = "mouseUp" /\ ev.outcome = "leave"
    /\ connectionStart # NullConnection
    /\ selectedTableId # Null
    /\ offset # Point(0, 0)
    /\ ~isDraggingCanvas
    /\ draggingTableId = Null

\* the context menu event handled last was the end of a right-click on the
\* handle it names: pointer-down on the handle, pointer-up, contextmenu
RightClickOnHandle ==
    /\ ev.op = "fieldContextMenu"
    /\ gesture.kind = "released"
    /\ gesture.t = ev.t /\ gesture.f = ev.f

(* C27: a right-click on a relationship edge or a connected field handle   *)
(* opens the context menu and changes neither pan, table drag, pending     *)
(* connection, selection, tables nor relationships. Here: at the end of a  *)
(* right-click on a handle the menu is open and the selection and the      *)
(* tables are those of the moment the button went down.                    *)
RightClickKeepsMode ==
    RightClickOnHandle =>
        /\ contextMenu.open
        /\ selectedTableId = gesture.selectedTableId
        /\ tables = gesture.tables

\* the relationship the open menu refers to
MenuRelationship ==
    relationships[CHOOSE i \in 1..Len(relationships) :
                      relationships[i].id = contextMenu.relationshipId]

(* C28: when the context menu is opened on a relationship edge or on a     *)
(* connected field handle, its color is the current color of the           *)
(* relationship its relationshipId names.                                  *)
MenuColorIsRelationshipColor ==
    (ev.op \in { "relationshipContextMenu", "fieldContextMenu" }
        /\ contextMenu.relationshipId # Null) =>
        /\ \E i \in 1..Len(relationships) : relationships[i].id = contextMenu.relationshipId
        /\ contextMenu.color = EffectiveColor(MenuRelationship)

(* C29: focusing a flow, changing the focused flow and leaving the focus   *)
(* (from the menu or from the indicator) leave tables and relationships    *)
(* as they were.                                                           *)
FocusKeepsGraph ==
    ev.op \in { "focus", "exitFocus", "focusClose" } =>
        /\ tables = prev.tables
        /\ relationships = prev.relationships

\* the focus moved from one color to another, on an edited graph
FocusChangedSeen ==
    /\ ev.op = "focus" /\ ev.outcome = "changed"
    /\ highlightedColor = ev.t
    /\ relationships # MenuRelationships

\* some relationship of color c references the table, at a field or at table level
ReferencedByColor(rels, c, table) ==
    \E i \in 1..Len(rels) : EffectiveColor(rels[i]) = c /\ TouchesTable(rels[i], table.id)

(* C30: while a color c is highlighted a table is drawn dimmed if and only *)
(* if no relationship of color c references it, at one of its fields or at *)
(* table level.                                                            *)
DimmedIffUnrelated ==
    highlightedColor # Null =>
        \A k \in 1..Len(tables) :
            isTableDimmed(relationships, highlightedColor, tables[k])
                <=> ~ReferencedByColor(relationships, highlightedColor, tables[k])

\* both tables of r are in the graph and so is every field r names, in its table
Resolves(ts, r) ==
    /\ r.sourceTableId \in TableIds(ts)
    /\ r.targetTableId \in TableIds(ts)
    /\ r.sourceFieldId # Null => HasField(ts, r.sourceTableId, r.sourceFieldId)
    /\ r.targetFieldId # Null => HasField(ts, r.targetTableId, r.targetFieldId)

(* C31: a relationship whose source table, target table or named source or *)
(* target field is not in the graph gets no path; every other relationship *)
(* gets one.                                                               *)
UnresolvedNotRouted ==
    \A i \in 1..Len(relationships) :
        renderConnectionLine(tables, relationships[i]).drawn <=> Resolves(tables, relationships[i])

\* the anchor of the field at index k (from 1) of a table, on its right edge
Anchor(table, k) == getFieldPosition(table, table.fields[k])

\* p lies in the bounding box of the table, edges included
InBox(table, p) ==
    /\ RatLeq(table.x, p.x)
    /\ RatLeq(p.x, RatAdd(table.x, Rat(TABLE_SIZE.width, 1)))
    /\ RatLeq(table.y, p.y)
    /\ RatLeq(p.y, RatAdd(table.y, Rat(calculateTableHeight(table), 1)))

(* C32: in every table the anchors of its fields descend strictly with the *)
(* field index, and each anchor, on the right edge or moved to the left    *)
(* edge, lies within the table's bounding box, whatever the description    *)
(* length and with or without an image.                                    *)
AnchorsOrderedInBox ==
    \A t \in 1..Len(tables) :
        \A k \in 1..Len(tables[t].fields) :
            /\ InBox(tables[t], Anchor(tables[t], k))
            /\ InBox(tables[t], [Anchor(tables[t], k) EXCEPT !.x = tables[t].x])
            /\ \A j \in 1..(k - 1) : RatLess(Anchor(tables[t], j).y, Anchor(tables[t], k).y)

\* a table with an image, a description of two lines and three fields, and a
\* dragged table
AnchorsWithImageSeen ==
    /\ \E t \in 1..Len(tables) :
          /\ tables[t].imageUrl # Null
          /\ tables[t].description > 42
          /\ Len(tables[t].fields) >= 3
    /\ \E u \in 1..Len(tables) : tables[u].id = 2 /\ tables[u].x # Rat(500, 1)

\* r names a field at both ends
FieldAtBothEnds(r) == r.sourceFieldId # Null /\ r.targetFieldId # Null

\* the path leaves the right edge of `from` and enters the left edge of `to`
RightToLeft(path, from, to) ==
    /\ path.start.x = RatAdd(from.x, Rat(TABLE_SIZE.width, 1))
    /\ path.end.x = to.x
    /\ path.cp1 = Point(RatAdd(path.start.x, Rat(50, 1)), path.start.y)
    /\ path.cp2 = Point(RatSub(path.end.x, Rat(50, 1)), path.end.y)

\* the path leaves the left edge of `from` and enters the right edge of `to`
LeftToRight(path, from, to) ==
    /\ path.start.x = from.x
    /\ path.end.x = RatAdd(to.x, Rat(TABLE_SIZE.width, 1))
    /\ path.cp1 = Point(RatSub(path.start.x, Rat(50, 1)), path.start.y)
    /\ path.cp2 = Point(RatAdd(path.end.x, Rat(50, 1)), path.end.y)

\* the ends of the path of relationships[i] face the other table
FacesOther(i) ==
    LET r == relationships[i]
        source == tables[FindTable(tables, r.sourceTableId)]
        target == tables[FindTable(tables, r.targetTableId)]
        path == renderConnectionLine(tables, r)
    IN  /\ RatLess(source.x, target.x) => RightToLeft(path, source, target)
        /\ RatLess(target.x, source.x) => LeftToRight(path, source, target)

(* C34: the path drawn for a relationship with a field at both ends leaves *)
(* the source on the edge facing the target and enters the target on the   *)
(* edge facing the source, with each control point 50 units outward of its *)
(* end.                                                                    *)
FieldPathFacesOtherTable ==
    \A i \in 1..Len(relationships) :
        (FieldAtBothEnds(relationships[i]) /\ renderConnectionLine(tables, relationships[i]).drawn)
            => FacesOther(i)

\* the same for the relationships whose fields are found
ResolvedFieldPathFacesOtherTable ==
    \A i \in 1..Len(relationships) :
        (FieldAtBothEnds(relationships[i]) /\ Resolves(tables, relationships[i]))
            => FacesOther(i)

(* C35: when an image upload completes, the tables are those of the moment *)
(* of completion with the imageUrl of the upload's table replaced: edits   *)
(* made since the file was chosen are kept and a table deleted since is    *)
(* not brought back.                                                       *)
UploadKeepsLaterEdits ==
    ev.op = "imageLoaded" =>
        tables = TablesAfterUpdate(prev.tables, ev.t, [imageUrl |-> ev.f])

(* C33: the cardinality of every relationship is 1:1, 1:N or N:M, in the   *)
(* initial state and in every state after it.                              *)
CardinalityInType ==
    \A i \in 1..Len(relationships) : relationships[i].cardinality \in { "1:1", "1:N", "N:M" }

(* C36: the selected table id is null or the id of a table of the graph,   *)
(* after any sequence of add-table, select, delete-table, import and AI    *)
(* replace.                                                                *)
SelectionResolves ==
    IsArray(tables) => (selectedTableId = Null \/ selectedTableId \in TableIds(tables))

(* C37: from every reachable zoom, values reached by wheel included, the   *)
(* zoom-in button never lowers the zoom and the zoom-out button never      *)
(* raises it.                                                              *)
ZoomButtonsMonotone ==
    /\ ev.op = "zoomIn" => zoom >= prev.zoom
    /\ ev.op = "zoomOut" => zoom <= prev.zoom

(* C38: a connect that succeeds appends exactly one relationship, from the *)
(* handle clicked first to the handle clicked second, with cardinality     *)
(* 1:N; the relationships there before keep order and content and the      *)
(* tables are unchanged.                                                   *)
ConnectAppendsOne ==
    Created =>
        /\ Len(relationships) = Len(prev.relationships) + 1
        /\ SubSeq(relationships, 1, Len(prev.relationships)) = prev.relationships
        /\ SourceEnd(Last(relationships)) = PendingEnd
        /\ TargetEnd(Last(relationships)) = ClickedEnd
        /\ Last(relationships).cardinality = "1:N"
        /\ tables = prev.tables

\* a second relationship was appended, between two different fields
ConnectAppendedSeen ==
    /\ Created
    /\ Len(prev.relationships) >= 1
    /\ PendingEnd # ClickedEnd
    /\ SourceEnd(Last(relationships)) = PendingEnd

(* C39: choosing a color in the menu recolors exactly the relationship the *)
(* menu refers to, closes the menu and moves the highlight to the new      *)
(* color only if it was on the menu's color; a menu that refers to no      *)
(* relationship leaves the graph unchanged.                                *)
ColorChangeRecolorsOne ==
    [][ev'.op = "colorChange" =>
          /\ tables' = tables
          /\ IF contextMenu.relationshipId # Null
             THEN /\ Len(relationships') = Len(relationships)
                  /\ \A i \in 1..Len(relationships) :
                        relationships'[i] =
                            IF relationships[i].id = contextMenu.relationshipId
                            THEN [relationships[i] EXCEPT !.color = ev'.t]
                            ELSE relationships[i]
                  /\ ~contextMenu'.open
                  /\ highlightedColor' = IF highlightedColor = contextMenu.color THEN ev'.t
                                         ELSE highlightedColor
             ELSE relationships' = relationships]_vars

\* a recoloring that moved the highlight and left a relationship of another color
ColorChangeSeen ==
    /\ ev.op = "colorChange" /\ ev.outcome = "recolored"
    /\ highlightedColor = ev.t
    /\ \E i, j \in 1..Len(relationships) :
          relationships[i].color = ev.t /\ relationships[j].color \notin { ev.t, Null }

(* C40: disconnecting field F of table T removes exactly the relationships *)
(* with (T, F) as source or as target, keeps the others in order and       *)
(* leaves the tables, the field included, unchanged.                       *)
DisconnectRemovesFieldEdges ==
    ev.op = "disconnect" =>
        /\ tables = prev.tables
        /\ relationships =
              SelectSeq(prev.relationships,
                        LAMBDA r : SourceEnd(r) # ClickedEnd /\ TargetEnd(r) # ClickedEnd)

\* an edge entering the field was removed and other edges were kept
DisconnectSeen ==
    /\ ev.op = "disconnect"
    /\ \E i \in 1..Len(prev.relationships) : TargetEnd(prev.relationships[i]) = ClickedEnd
    /\ Len(relationships) >= 1
    /\ HasField(tables, ev.t, ev.f)

====
